---------------------------- MODULE Spec2Model ----------------------------
(***************************************************************************)
(* A model of the video-tools LTC utilities.                               *)
(*                                                                         *)
(*   read-timecode.ts       the audio-decoded path: the sync-word scan at  *)
(*                          the end of detectManchesterBits, and the field *)
(*                          decoder parseLTCFrame.                         *)
(*   sync-ltc-timecode.ts   LTCSyncTool: the validator parseLTCFrame(line) *)
(*                          applied to ltcdump's text, the derivations     *)
(*                          calculateTimeReference / formatCreationTime,   *)
(*                          and the orchestration of syncTimecode.         *)
(*                                                                         *)
(* Three specifications share the module: SpecFrame (bit windows),         *)
(* SpecValidate (one ltcdump run and the derived metadata) and SpecSync    *)
(* (the verify/update loops over sibling and source files).  Each keeps    *)
(* the variables of the other two at their idle values.                    *)
(***************************************************************************)
EXTENDS Integers, Sequences, FiniteSets, TLC

VARIABLES
    \* ---- read-timecode.ts ----
    built,           \* the field values an 80-bit frame was constructed from
    flips,           \* the sync-word indices (64..79) corrupted in that frame
    bits,            \* `bits`: the recovered channel bit sequence
    scanned,         \* whether the sync scan (lines 181-215) has run
    frameCandidate,  \* what the scan returned: 80 bits, or << >>
    decodedFrom,     \* "none" | "scan" | "bits": which array parseLTCFrame got
    ltcFrame,        \* what parseLTCFrame returned: an LTCFrame, or NULL
    \* ---- sync-ltc-timecode.ts: extraction and derivation ----
    ltcOutput,        \* the lines `ltcdump -vv` printed for the source file
    dumpThrows,       \* whether execSync("ltcdump ...") throws
    now,              \* new Date(): the wall-clock date of the run
    targetSampleRate, \* the sample rate of the WAV file being updated
    frames,           \* runLTCdump: frames
    warnings,         \* what console.warn was called with, in order
    referenceFrame,   \* getFirstValidFrame's result, or NULL
    timeReference,    \* calculateTimeReference's result, or NULL
    creationTime,     \* formatCreationTime's result, or << >>
    vpc,              \* "start" | "dumped" | "picked" | "timed" | "formatted" | "failed"
    \* ---- sync-ltc-timecode.ts: orchestration ----
    listing,          \* fs.readdirSync of the directory, in its order
    isDirectoryMode,  \* this.isDirectoryMode of the tool main() constructed
    sourceFile,       \* the file LTC is being extracted from, or NULL
    siblingFiles,     \* siblingFiles of the tool in use
    sourceFiles,      \* directory mode: what discoverFilePatterns returned
    sourceIndex,      \* directory mode: position of the for loop of line 483
    siblingIndex,     \* position of the for loop of line 434 / 508
    calls,            \* the execSync calls made so far, in order
    processed,        \* the files processSingleSourceFile was called with
    spc,              \* "sync" | "source" | "extract" | "verify" | "update" |
                      \* "reverify" | "done" | "exit1"
    \* ---- read-timecode.ts: bit recovery and the first-frame scan ----
    digital,            \* the polarity trace handed to the function being run
    sampleRate,         \* its sample rate
    entry,              \* the function being run: "free" (detectManchesterBits),
                        \* "anchored" (detectManchesterBitsFromPosition) or
                        \* "find" (findFirstValidLTCFrame)
    startPos,           \* findFirstValidLTCFrame: startPos
    chunk,              \* the trace the bit-recovery pass runs over
    loopIndex,          \* i of the recovery loop
    currentState,       \* 0 | 1
    samplesPerBit,      \* the running bit period, a fraction [num, den]
    samplesSinceChange, \* samples since the last polarity change
    pendingBit,         \* a half-bit interval is waiting for its second half
    result,             \* what the function returned, or NULL
    encoded,            \* what the polarity trace was made from
    rpc,                \* "call" | "loop" | "scanned" | "returned"
    \* audioToDigital (read-timecode.ts)
    buffer,             \* the file's bytes, 0..255 each
    dataOffset,         \* where the data chunk's bytes begin
    bitsPerSample,      \* the fmt chunk's bit depth
    maxSamples,         \* the cap on the samples to convert
    numSamples,         \* Math.min(availableSamples, maxSamples)
    sampleIndex,        \* i of the conversion loop
    polarity,           \* the local `digital`: the booleans pushed so far
    thrown,             \* the error a buffer read raised, or NULL
    dpc,                \* "call" | "loop" | "returned" | "thrown" | "decoding"
    \* the date read from the user bits (both programs)
    route,              \* "audio": displayLTCFrame, "text": parseLTCFrame(line)
    frameResult,        \* audio: the frame parseLTCFrame decoded from 80 bits
    dumpLine,           \* text: the line of ltcdump's output
    userBitsString,     \* audio: the groups 8..1 printed one after another
    shownDate,          \* audio: the date the display printed, or NULL
    dumpFrame,          \* text: the frame parseLTCFrame(line) returned, or NULL
    runDate,            \* text: the value of new Date()
    ypc                 \* "call" | "done"

frameVars == <<built, flips, bits, scanned, frameCandidate, decodedFrom, ltcFrame>>

validateVars == <<ltcOutput, dumpThrows, now, targetSampleRate, frames, warnings,
                  referenceFrame, timeReference, creationTime, vpc>>

syncVars == <<listing, isDirectoryMode, sourceFile, siblingFiles, sourceFiles,
              sourceIndex, siblingIndex, calls, processed, spc>>

recoverVars == <<digital, sampleRate, entry, startPos, chunk, loopIndex,
                 currentState, samplesPerBit, samplesSinceChange, pendingBit,
                 result, encoded, rpc>>

digitizeVars == <<buffer, dataOffset, bitsPerSample, maxSamples, numSamples,
                  sampleIndex, polarity, thrown, dpc>>

dateVars == <<route, frameResult, dumpLine, userBitsString, shownDate,
              dumpFrame, runDate, ypc>>

vars == <<frameVars, validateVars, syncVars, recoverVars, digitizeVars,
          dateVars>>

\* JavaScript's null.
NULL == [null |-> TRUE]

\* The variables of read-timecode.ts while another part is being run.
FrameIdle ==
    /\ built = NULL /\ flips = {} /\ bits = << >> /\ scanned = FALSE
    /\ frameCandidate = << >> /\ decodedFrom = "none" /\ ltcFrame = NULL

\* The extraction variables of sync-ltc-timecode.ts while another part runs.
ValidateIdle ==
    /\ ltcOutput = << >> /\ dumpThrows = FALSE /\ now = NULL
    /\ targetSampleRate = 0 /\ frames = << >> /\ warnings = << >>
    /\ referenceFrame = NULL /\ timeReference = NULL /\ creationTime = << >>
    /\ vpc = "start"

\* The orchestration variables of sync-ltc-timecode.ts while another part runs.
SyncIdle ==
    /\ listing = << >> /\ isDirectoryMode = FALSE /\ sourceFile = NULL
    /\ siblingFiles = << >> /\ sourceFiles = << >> /\ sourceIndex = 0
    /\ siblingIndex = 0 /\ calls = << >> /\ processed = {} /\ spc = "idle"

\* The bit-recovery variables of read-timecode.ts while another part runs.
RecoverIdle ==
    /\ digital = << >> /\ sampleRate = 0 /\ entry = "none" /\ startPos = 0
    /\ chunk = << >> /\ loopIndex = 0 /\ currentState = 0
    /\ samplesPerBit = NULL /\ samplesSinceChange = 0 /\ pendingBit = FALSE
    /\ result = NULL /\ encoded = NULL /\ rpc = "idle"

\* The variables of audioToDigital while another part runs.
DigitizeIdle ==
    /\ buffer = << >> /\ dataOffset = 0 /\ bitsPerSample = 0 /\ maxSamples = 0
    /\ numSamples = 0 /\ sampleIndex = 0 /\ polarity = << >> /\ thrown = NULL
    /\ dpc = "idle"

\* The variables of the date reading while another part runs.
DateIdle ==
    /\ route = "none" /\ frameResult = NULL /\ dumpLine = NULL
    /\ userBitsString = << >> /\ shownDate = NULL /\ dumpFrame = NULL
    /\ runDate = NULL /\ ypc = "idle"

---------------------------------------------------------------------------
(* Arrays.  JavaScript arrays are indexed from 0, sequences from 1.        *)

\* bits[i]
Bit(b, i) == b[i + 1]

Min(a, b) == IF a <= b THEN a ELSE b

\* Array.prototype.slice(from, to) for 0 <= from, 0 <= to.
Slice(s, from, to) == SubSeq(s, from + 1, Min(to, Len(s)))

---------------------------------------------------------------------------
(* The synchronizer: the scan at the end of detectManchesterBits.          *)

\* const syncPattern = [0,0,1,1,1,1,1,1,1,1,1,1,1,1,0,1]   // 0x3FFD
syncPattern == <<0, 0, 1, 1, 1, 1, 1, 1, 1, 1, 1, 1, 1, 1, 0, 1>>

\* candidateSync.filter((bit, idx) => bit === syncPattern[idx]).length
SyncMatchCount(candidateSync) ==
    Cardinality({idx \in 1..Len(candidateSync) : candidateSync[idx] = syncPattern[idx]})

\* if (matches >= 15)   // Allow 1 bit error
ScanThreshold == 15

\* The body of the scan loop at offset i: whether the window is returned.
ScanAccepts(b, i) ==
    /\ i + 80 <= Len(b)
    /\ SyncMatchCount(Slice(Slice(b, i, i + 80), 64, 80)) >= ScanThreshold

\* A scan that keeps the last qualifying offset instead of the first.
SyncScanLast(b, i) ==
    LET hits == {j \in i..(Len(b) - 80) : ScanAccepts(b, j)}
    IN IF hits = {} THEN << >>
       ELSE LET last == CHOOSE j \in hits : \A h \in hits : h <= j
            IN Slice(b, last, last + 80)

\* for (let i = 0; i <= bits.length - 80; i++) { ... return frameCandidate } return []
RECURSIVE SyncScan(_, _)
SyncScan(b, i) ==
    IF i > Len(b) - 80 THEN << >>
    ELSE IF ScanAccepts(b, i) THEN Slice(b, i, i + 80)
    ELSE SyncScan(b, i + 1)

---------------------------------------------------------------------------
(* The field decoder: parseLTCFrame(bits) of read-timecode.ts.             *)

\* (bits[a+3] << 3) | (bits[a+2] << 2) | (bits[a+1] << 1) | bits[a]
Nibble4(b, a) == Bit(b, a + 3) * 8 + Bit(b, a + 2) * 4 + Bit(b, a + 1) * 2 + Bit(b, a)
\* (bits[a+2] << 2) | (bits[a+1] << 1) | bits[a]
Nibble3(b, a) == Bit(b, a + 2) * 4 + Bit(b, a + 1) * 2 + Bit(b, a)
\* (bits[a+1] << 1) | bits[a]
Nibble2(b, a) == Bit(b, a + 1) * 2 + Bit(b, a)

\* if (syncMatches < 14)   // Allow up to 2 bit errors in sync
DecodeThreshold == 14

\* The field extraction with the seconds-tens read one bit too high (25-27).
FrameFieldsShifted(b) ==
    [ frame        |-> Nibble2(b, 8) * 10 + Nibble4(b, 0),
      second       |-> Nibble3(b, 25) * 10 + Nibble4(b, 16),
      minute       |-> Nibble3(b, 40) * 10 + Nibble4(b, 32),
      hour         |-> Nibble2(b, 56) * 10 + Nibble4(b, 48),
      dropFrame    |-> Bit(b, 10) = 1,
      colorFrame   |-> Bit(b, 11) = 1,
      binaryGroups |-> [g \in 1..8 |-> Nibble4(b, 8 * (g - 1) + 4)] ]

\* frame_units ... hour_tens, binaryGroup1 ... binaryGroup8 and the returned
\* object.  binaryGroups[g] is the field binaryGroup<g>: bits 4-7, 12-15, ...
FrameFields(b) ==
    [ frame        |-> Nibble2(b, 8) * 10 + Nibble4(b, 0),
      second       |-> Nibble3(b, 24) * 10 + Nibble4(b, 16),
      minute       |-> Nibble3(b, 40) * 10 + Nibble4(b, 32),
      hour         |-> Nibble2(b, 56) * 10 + Nibble4(b, 48),
      dropFrame    |-> Bit(b, 10) = 1,
      colorFrame   |-> Bit(b, 11) = 1,
      binaryGroups |-> [g \in 1..8 |-> Nibble4(b, 8 * (g - 1) + 4)] ]

\* A decoder that takes over the scan's threshold of 15.
parseLTCFrameStrict(b) ==
    IF Len(b) < 80 THEN NULL
    ELSE IF SyncMatchCount(Slice(b, 64, 80)) < ScanThreshold THEN NULL
    ELSE FrameFields(b)

\* A decoder that tolerates three sync errors.
parseLTCFrameLoose(b) ==
    IF Len(b) < 80 THEN NULL
    ELSE IF SyncMatchCount(Slice(b, 64, 80)) < DecodeThreshold - 1 THEN NULL
    ELSE FrameFields(b)

\* if (bits.length < 80) return null; ... if (syncMatches < 14) return null;
parseLTCFrame(b) ==
    IF Len(b) < 80 THEN NULL
    ELSE IF SyncMatchCount(Slice(b, 64, 80)) < DecodeThreshold THEN NULL
    ELSE FrameFields(b)

---------------------------------------------------------------------------
(* Frame construction: the LTC wire layout, used to build the windows the  *)
(* decoder is run on.  Bits 27, 43, 58 and 59 carry no decoded field and   *)
(* take the value `spare`.                                                 *)

\* Bit j (0 = least significant) of v.
NthBit(v, j) == (v \div (2 ^ j)) % 2

BoolBit(x) == IF x THEN 1 ELSE 0

\* Bit k (0..63) of the frame built from the field values f.  The upper
\* half of every byte is a user-bit group.
LayoutBit(f, k) ==
    IF k % 8 >= 4        THEN NthBit(f.ub[(k \div 8) + 1], (k % 8) - 4)
    ELSE IF k \in 0..3   THEN NthBit(f.frameUnits, k)
    ELSE IF k \in 8..9   THEN NthBit(f.frameTens, k - 8)
    ELSE IF k = 10       THEN BoolBit(f.dropFrame)
    ELSE IF k = 11       THEN BoolBit(f.colorFrame)
    ELSE IF k \in 16..19 THEN NthBit(f.secondUnits, k - 16)
    ELSE IF k \in 24..26 THEN NthBit(f.secondTens, k - 24)
    ELSE IF k \in 32..35 THEN NthBit(f.minuteUnits, k - 32)
    ELSE IF k \in 40..42 THEN NthBit(f.minuteTens, k - 40)
    ELSE IF k \in 48..51 THEN NthBit(f.hourUnits, k - 48)
    ELSE IF k \in 56..57 THEN NthBit(f.hourTens, k - 56)
    ELSE f.spare

\* The 80-bit frame: 64 data bits, then the sync word with the bits at the
\* indices in fl (64..79) inverted.
BuildFrame(f, fl) ==
    [k \in 1..80 |->
        IF k <= 64 THEN LayoutBit(f, k - 1)
        ELSE IF (k - 1) \in fl THEN 1 - syncPattern[k - 64]
        ELSE syncPattern[k - 64]]

---------------------------------------------------------------------------
(* The windows and bit sequences the scan and the decoder are run on.      *)

\* The most sync-word bits corrupted in one constructed frame.
MaxFlips == 3
\* The most stray bits in front of a frame in a longer bit sequence.
MaxPad == 2

ZeroFields ==
    [ frameUnits |-> 0, frameTens |-> 0, secondUnits |-> 0, secondTens |-> 0,
      minuteUnits |-> 0, minuteTens |-> 0, hourUnits |-> 0, hourTens |-> 0,
      dropFrame |-> FALSE, colorFrame |-> FALSE,
      ub |-> [g \in 1..8 |-> 0], spare |-> 0 ]

\* 01:02:03:04, non-drop, user bits 25091500 (group 8 first).
ExampleFields ==
    [ frameUnits |-> 4, frameTens |-> 0, secondUnits |-> 3, secondTens |-> 0,
      minuteUnits |-> 2, minuteTens |-> 0, hourUnits |-> 1, hourTens |-> 0,
      dropFrame |-> FALSE, colorFrame |-> FALSE,
      ub |-> <<0, 0, 5, 1, 9, 0, 5, 2>>, spare |-> 0 ]

\* Every field at its largest bit pattern.
OnesFields ==
    [ frameUnits |-> 15, frameTens |-> 3, secondUnits |-> 15, secondTens |-> 7,
      minuteUnits |-> 15, minuteTens |-> 7, hourUnits |-> 15, hourTens |-> 3,
      dropFrame |-> TRUE, colorFrame |-> TRUE,
      ub |-> [g \in 1..8 |-> 15], spare |-> 1 ]

BaseFields == {ZeroFields, ExampleFields, OnesFields}

\* The bit patterns each numeric field can hold.
FieldRange ==
    [ frameUnits |-> 0..15, frameTens |-> 0..3, secondUnits |-> 0..15,
      secondTens |-> 0..7, minuteUnits |-> 0..15, minuteTens |-> 0..7,
      hourUnits |-> 0..15, hourTens |-> 0..3, spare |-> 0..1 ]

\* A base with one field, flag or user-bit group set to any of its values.
BuiltSamples ==
    UNION { UNION { {[f EXCEPT ![k] = v] : v \in FieldRange[k]} : k \in DOMAIN FieldRange }
            \cup {[f EXCEPT !.dropFrame = v] : v \in BOOLEAN}
            \cup {[f EXCEPT !.colorFrame = v] : v \in BOOLEAN}
            \cup {[f EXCEPT !.ub[g] = v] : g \in 1..8, v \in 0..15}
          : f \in BaseFields }

FlipSets == {fl \in SUBSET (64..79) : Cardinality(fl) <= MaxFlips}

BitSeqs(n) == UNION {[1..m -> {0, 1}] : m \in 0..n}

\* Single windows: every sampled field value under a clean sync word, and
\* the base fields under every corruption of up to MaxFlips sync bits.
WindowInputs ==
    {[built |-> f, flips |-> {}, bits |-> BuildFrame(f, {})] : f \in BuiltSamples}
    \cup {[built |-> f, flips |-> fl, bits |-> BuildFrame(f, fl)] :
              f \in {ExampleFields, OnesFields}, fl \in FlipSets}

\* Longer and shorter sequences: stray bits, then a frame, then nothing, a
\* second frame, or a cut after n bits.
StreamInputs ==
    {[built |-> ExampleFields, flips |-> fl,
      bits |-> pre \o BuildFrame(ExampleFields, fl) \o post] :
         pre \in BitSeqs(MaxPad), fl \in SUBSET {64, 71, 79},
         post \in {<< >>} \cup {BuildFrame(ZeroFields, fl2) : fl2 \in SUBSET {65, 78}}}
    \cup {[built |-> ExampleFields, flips |-> {},
           bits |-> SubSeq(BuildFrame(ExampleFields, {}), 1, n)] : n \in {0, 40, 79}}

FrameInit ==
    \E in \in WindowInputs \cup StreamInputs :
        /\ built = in.built
        /\ flips = in.flips
        /\ bits = in.bits
        /\ scanned = FALSE
        /\ frameCandidate = << >>
        /\ decodedFrom = "none"
        /\ ltcFrame = NULL
        /\ ValidateIdle
        /\ SyncIdle
        /\ RecoverIdle
        /\ DigitizeIdle
        /\ DateIdle

\* The sync scan of detectManchesterBits over the recovered bits.
DetectSync ==
    /\ ~scanned
    /\ decodedFrom = "none"
    /\ scanned' = TRUE
    /\ frameCandidate' = SyncScan(bits, 0)
    /\ UNCHANGED <<built, flips, bits, decodedFrom, ltcFrame, validateVars, syncVars, recoverVars, digitizeVars, dateVars>>

\* findFirstValidLTCFrame: if (bits.length >= 80) frame = parseLTCFrame(bits),
\* where bits is what the scan returned.
ParseFound ==
    /\ scanned
    /\ decodedFrom = "none"
    /\ Len(frameCandidate) >= 80
    /\ decodedFrom' = "scan"
    /\ ltcFrame' = parseLTCFrame(frameCandidate)
    /\ UNCHANGED <<built, flips, bits, scanned, frameCandidate, validateVars, syncVars, recoverVars, digitizeVars, dateVars>>

\* parseLTCFrame called on its own, on the recovered bits as they are.
ParseStandalone ==
    /\ decodedFrom = "none"
    /\ decodedFrom' = "bits"
    /\ ltcFrame' = parseLTCFrame(bits)
    /\ UNCHANGED <<built, flips, bits, scanned, frameCandidate, validateVars, syncVars, recoverVars, digitizeVars, dateVars>>

FrameNext == DetectSync \/ ParseFound \/ ParseStandalone

SpecFrame == FrameInit /\ [][FrameNext]_vars

---------------------------------------------------------------------------
(* Claims about the synchronizer and the field decoder (SpecFrame).        *)

\* The state holds one constructed window, exactly as built.
IsBuiltWindow == bits = BuildFrame(built, flips)

\* The decoded frame the construction of `built` calls for.
ExpectedFrame ==
    [ frame        |-> built.frameTens * 10 + built.frameUnits,
      second       |-> built.secondTens * 10 + built.secondUnits,
      minute       |-> built.minuteTens * 10 + built.minuteUnits,
      hour         |-> built.hourTens * 10 + built.hourUnits,
      dropFrame    |-> built.dropFrame,
      colorFrame   |-> built.colorFrame,
      binaryGroups |-> built.ub ]

\* C1: a frame built from a correct sync word and any field values decodes
\* to exactly the frame, second, minute, hour, flags and eight user-bit
\* groups it was built from, whether decoded directly or after the scan.
C1_RoundTrip ==
    (IsBuiltWindow /\ flips = {} /\ decodedFrom # "none") => ltcFrame = ExpectedFrame

\* 01:02:03:04 non-drop has been built, decoded and recovered.
C1_Witness ==
    /\ IsBuiltWindow /\ flips = {} /\ built = ExampleFields
    /\ decodedFrom = "bits"
    /\ ltcFrame # NULL
    /\ ltcFrame.hour = 1 /\ ltcFrame.minute = 2 /\ ltcFrame.second = 3
    /\ ltcFrame.frame = 4 /\ ltcFrame.dropFrame = FALSE
    /\ ltcFrame.binaryGroups = <<0, 0, 5, 1, 9, 0, 5, 2>>

\* C2: with exactly one sync bit flipped the window still matches, in the
\* scan and in the standalone decoder; with three or more flipped neither
\* matches.
C2_SyncTolerance ==
    IsBuiltWindow =>
        /\ Cardinality(flips) = 1 =>
              /\ scanned => frameCandidate = bits
              /\ decodedFrom = "bits" => ltcFrame # NULL
        /\ Cardinality(flips) >= 3 =>
              /\ scanned => frameCandidate = << >>
              /\ decodedFrom = "bits" => ltcFrame = NULL

\* A window with one corrupted sync bit has been scanned and decoded.
C2_Witness ==
    /\ IsBuiltWindow /\ Cardinality(flips) = 1
    /\ scanned /\ frameCandidate = bits
    /\ decodedFrom = "bits" /\ ltcFrame # NULL

\* The other half of C2: three corrupted bits, rejected by both.
C2_WitnessRejected ==
    /\ IsBuiltWindow /\ Cardinality(flips) = 3
    /\ scanned /\ frameCandidate = << >>
    /\ decodedFrom = "bits" /\ ltcFrame = NULL

\* The number of sync bits of a constructed window that match the pattern.
BuiltMatches == 16 - Cardinality(flips)

\* C3 as stated: the scan accepts exactly at 15 or more matches, the
\* decoder accepts at 14 or more, and on a window the free scan handled the
\* decoder returns no frame whenever the match count is below the scan's 15.
C3_DecoderMirrorsCaller ==
    IsBuiltWindow =>
        /\ scanned => (frameCandidate # << >> <=> BuiltMatches >= 15)
        /\ decodedFrom = "bits" => (BuiltMatches < 14 => ltcFrame = NULL)
        /\ (scanned /\ decodedFrom = "bits") => (BuiltMatches < 15 => ltcFrame = NULL)

\* C3 amended: the scan accepts exactly at 15 or more matches; the decoder
\* has one fixed threshold and returns a frame exactly at 14 or more, also
\* on a window the free scan has just rejected.
C3_FixedThresholds ==
    IsBuiltWindow =>
        /\ scanned => (frameCandidate # << >> <=> BuiltMatches >= 15)
        /\ decodedFrom = "bits" => (ltcFrame # NULL <=> BuiltMatches >= 14)

\* Exactly 14 matches: rejected by the scan, decoded by the decoder.
C3_Witness ==
    /\ IsBuiltWindow /\ BuiltMatches = 14
    /\ scanned /\ frameCandidate = << >>
    /\ decodedFrom = "bits" /\ ltcFrame # NULL

\* The sync bits of the window at offset i that match, counted position by
\* position.
WindowMatches(b, i) ==
    Cardinality({k \in 0..15 : b[i + 64 + k + 1] = syncPattern[k + 1]})

\* The offsets of bits whose window meets the scan's threshold.
QualifyingOffsets ==
    {i \in 0..(Len(bits) - 80) : WindowMatches(bits, i) >= 15}

\* C4: the scan returns the 80 bits at the smallest qualifying offset, and
\* the empty result exactly when no offset qualifies.
C4_FirstOffsetWins ==
    scanned =>
        /\ frameCandidate = << >> <=> QualifyingOffsets = {}
        /\ QualifyingOffsets # {} =>
              LET first == CHOOSE i \in QualifyingOffsets :
                               \A j \in QualifyingOffsets : i <= j
              IN frameCandidate = SubSeq(bits, first + 1, first + 80)

\* Two offsets qualify, the earlier one is not 0, and the two windows differ.
C4_Witness ==
    /\ scanned /\ frameCandidate # << >>
    /\ \E i, j \in QualifyingOffsets :
          /\ 0 < i /\ i < j
          /\ SubSeq(bits, i + 1, i + 80) # SubSeq(bits, j + 1, j + 80)
          /\ frameCandidate = SubSeq(bits, i + 1, i + 80)

---------------------------------------------------------------------------
(* Text.  A string is a sequence of one-character strings.                 *)

DigitChar == <<"0", "1", "2", "3", "4", "5", "6", "7", "8", "9">>

DigitOf ==
    ("0" :> 0) @@ ("1" :> 1) @@ ("2" :> 2) @@ ("3" :> 3) @@ ("4" :> 4) @@
    ("5" :> 5) @@ ("6" :> 6) @@ ("7" :> 7) @@ ("8" :> 8) @@ ("9" :> 9)

\* \d
IsDigit(c) == c \in DOMAIN DigitOf

\* The number NaN.  Every number the model parses is >= 0, so -1 is free.
NaN == -1

\* JavaScript's < and > on numbers: false when an operand is NaN.
JsLt(a, b) == a # NaN /\ b # NaN /\ a < b
JsGt(a, b) == a # NaN /\ b # NaN /\ a > b

\* String.prototype.substring(from, to) for 0 <= from <= to.
Substring(s, from, to) == SubSeq(s, from + 1, Min(to, Len(s)))

RECURSIVE LeadingDigits(_)
LeadingDigits(s) ==
    IF s = << >> \/ ~IsDigit(Head(s)) THEN 0 ELSE 1 + LeadingDigits(Tail(s))

RECURSIVE DecimalValue(_)
DecimalValue(s) ==
    IF s = << >> THEN 0
    ELSE DecimalValue(SubSeq(s, 1, Len(s) - 1)) * 10 + DigitOf[s[Len(s)]]

\* parseInt(s) for a string without sign, blanks or 0x prefix: the value of
\* its leading decimal digits, NaN when it starts with none.
ParseInt(s) ==
    LET n == LeadingDigits(s)
    IN IF n = 0 THEN NaN ELSE DecimalValue(SubSeq(s, 1, n))

\* Number.prototype.toString() for an integer n >= 0; "NaN" for NaN.
RECURSIVE NumberToString(_)
NumberToString(n) ==
    IF n = NaN THEN <<"N", "a", "N">>
    ELSE IF n < 10 THEN <<DigitChar[n + 1]>>
    ELSE NumberToString(n \div 10) \o <<DigitChar[(n % 10) + 1]>>

\* String.prototype.padStart(2, "0")
PadStart2(s) ==
    IF Len(s) >= 2 THEN s
    ELSE IF Len(s) = 1 THEN <<"0">> \o s
    ELSE <<"0", "0">>

\* String.prototype.includes(c) for a one-character c.
Includes(s, c) == \E i \in 1..Len(s) : s[i] = c

---------------------------------------------------------------------------
(* The validator: LTCSyncTool.parseLTCFrame(line).                         *)
(*                                                                         *)
(* A line of ltcdump's output is a record                                  *)
(*   kind      "data" | "comment" (starts with #) | "blank" |              *)
(*             "discontinuity" (contains DISCONTINUITY)                    *)
(*   bars      how many "|" it holds                                       *)
(*   userBits  leftParts[0], the first blank-separated word                *)
(*   timecode  leftParts.slice(1).join(" "), the rest left of the bar      *)
(* The frame's `position` field is copied from the text right of the bar,  *)
(* is read by nothing, and is left out.                                    *)

\* /(\d{2}):(\d{2}):(\d{2})[.:](\d{2})/ matches tc at index p (from 1).
TimecodeMatchesAt(tc, p) ==
    /\ p + 10 <= Len(tc)
    /\ IsDigit(tc[p]) /\ IsDigit(tc[p + 1]) /\ tc[p + 2] = ":"
    /\ IsDigit(tc[p + 3]) /\ IsDigit(tc[p + 4]) /\ tc[p + 5] = ":"
    /\ IsDigit(tc[p + 6]) /\ IsDigit(tc[p + 7]) /\ tc[p + 8] \in {".", ":"}
    /\ IsDigit(tc[p + 9]) /\ IsDigit(tc[p + 10])

\* timecode.match(...): the index of the leftmost match, 0 when there is none.
TimecodeMatch(tc) ==
    LET hits == {p \in 1..Len(tc) : TimecodeMatchesAt(tc, p)}
    IN IF hits = {} THEN 0 ELSE CHOOSE p \in hits : \A q \in hits : p <= q

\* month < 1 || month > 12 || day < 1 || day > 31
DateInvalid(month, day) ==
    JsLt(month, 1) \/ JsGt(month, 12) \/ JsLt(day, 1) \/ JsGt(day, 31)

\* A warning: what was found, and the value the message says it becomes.
Warning(kind, value, to) == [kind |-> kind, value |-> value, to |-> to]

\* An hour check that reports and leaves the hour as it is.
CorrectedHourUnchanged(hour) == hour

\* if (hour >= 24) { console.warn(...); hour = hour % 24; }
CorrectedHour(hour) == IF hour >= 24 THEN hour % 24 ELSE hour

\* A minute/second check that stores what its message announces.
StoredMinuteSecondModulo(value) == value % 60

\* if (minute >= 60) { console.warn(...) }, and the same for second: the
\* branch assigns nothing, so the value returned is the value parsed.
StoredMinuteSecond(value) == value

\* parseLTCFrame(line): the frame, or NULL, and the warnings it printed.
\* `today` is the value of new Date().
LTCSyncTool_parseLTCFrame(line, today) ==
    IF line.bars + 1 # 2 THEN [frame |-> NULL, warns |-> << >>]
    ELSE IF Len(line.userBits) # 8 THEN [frame |-> NULL, warns |-> << >>]
    ELSE
      LET userBits == line.userBits
          timecode == line.timecode
          year0    == ParseInt(<<"2", "0">> \o Substring(userBits, 0, 2))
          month0   == ParseInt(Substring(userBits, 2, 4))
          day0     == ParseInt(Substring(userBits, 4, 6))
          invalid  == DateInvalid(month0, day0)
          dateWarn == IF invalid THEN <<Warning("date", 0, 0)>> ELSE << >>
          p        == TimecodeMatch(timecode)
      IN IF p = 0 THEN [frame |-> NULL, warns |-> dateWarn]
         ELSE
           LET hour0  == ParseInt(SubSeq(timecode, p, p + 1))
               minute == ParseInt(SubSeq(timecode, p + 3, p + 4))
               second == ParseInt(SubSeq(timecode, p + 6, p + 7))
               frame  == ParseInt(SubSeq(timecode, p + 9, p + 10))
           IN [ frame |->
                  [ userBits  |-> userBits,
                    timecode  |-> timecode,
                    year      |-> IF invalid THEN today.year ELSE year0,
                    month     |-> IF invalid THEN today.month ELSE month0,
                    day       |-> IF invalid THEN today.day ELSE day0,
                    hour      |-> CorrectedHour(hour0),
                    minute    |-> StoredMinuteSecond(minute),
                    second    |-> StoredMinuteSecond(second),
                    frame     |-> frame,
                    dropFrame |-> Includes(timecode, ".") ],
                warns |->
                  dateWarn
                  \o (IF hour0 >= 24 THEN <<Warning("hour", hour0, hour0 % 24)>> ELSE << >>)
                  \o (IF minute >= 60 THEN <<Warning("minute", minute, minute % 60)>> ELSE << >>)
                  \o (IF second >= 60 THEN <<Warning("second", second, second % 60)>> ELSE << >>) ]

---------------------------------------------------------------------------
(* runLTCdump, getFirstValidFrame and the two derivations.                 *)

\* .filter(line => line.trim() && !line.startsWith("#") &&
\*                 !line.includes("DISCONTINUITY"))
KeptLines(output) == SelectSeq(output, LAMBDA line : line.kind = "data")

\* for (const line of lines) { frame = parseLTCFrame(line); if (frame) push }
RECURSIVE ParseLines(_, _)
ParseLines(lines, today) ==
    IF lines = << >> THEN [frames |-> << >>, warns |-> << >>]
    ELSE LET first == LTCSyncTool_parseLTCFrame(Head(lines), today)
             rest  == ParseLines(Tail(lines), today)
         IN [ frames |-> (IF first.frame = NULL THEN << >> ELSE <<first.frame>>)
                         \o rest.frames,
              warns  |-> first.warns \o rest.warns ]

\* Math.round(p / q) for p >= 0, q > 0: the nearest integer, halves up.
MathRound(p, q) == (2 * p + q) \div (2 * q)

\* (totalFrames * 48000) / frameRate
SampleRate == 48000

\* A sample count n, held as seconds * 48000 + samples with
\* 0 <= samples < 48000: a time reference passes 2^31 after 12h 25min.
SampleCount(seconds, samples) ==
    [ seconds |-> seconds + (samples \div SampleRate),
      samples |-> samples % SampleRate ]

\* frame.dropFrame ? 29.97 : 30, in hundredths.
FrameRate100(frame) == IF frame.dropFrame THEN 2997 ELSE 3000

\* A derivation that takes 30 fps for every frame.
calculateTimeReferenceNonDrop(frame) ==
    SampleCount(frame.hour * 3600 + frame.minute * 60 + frame.second,
                MathRound(frame.frame * 100 * SampleRate, 3000))

\* totalFrames = (hour*3600 + minute*60 + second) * frameRate + frame
\* samples     = Math.round((totalFrames * 48000) / frameRate)
\* In exact arithmetic totalFrames * 48000 / frameRate is
\* (hour*3600 + minute*60 + second) * 48000 + frame * 48000 / frameRate,
\* whose first term is an integer, so the rounding acts on the second.  For
\* every hour < 24 and minute, second, frame < 100 the IEEE double the code
\* computes rounds to the same integer: the exact value is never closer
\* than 1/1998 to a half, the double never further than 1e-6 from it.
calculateTimeReference(frame) ==
    SampleCount(frame.hour * 3600 + frame.minute * 60 + frame.second,
                MathRound(frame.frame * 100 * SampleRate, FrameRate100(frame)))

\* `${hour.toString().padStart(2,"0")}:${minute...}:${second...}`
formatCreationTime(frame) ==
    PadStart2(NumberToString(frame.hour)) \o <<":">>
    \o PadStart2(NumberToString(frame.minute)) \o <<":">>
    \o PadStart2(NumberToString(frame.second))

---------------------------------------------------------------------------
(* The ltcdump outputs the extraction is run on.                           *)

\* The most lines in an output of several lines.
MaxLines == 2

TwoDigits(n) == <<DigitChar[(n \div 10) + 1], DigitChar[(n % 10) + 1]>>

\* HH:MM:SS:FF, or HH:MM:SS.FF (drop-frame) with sep = "."
Timecode(h, m, s, sep, f) ==
    TwoDigits(h) \o <<":">> \o TwoDigits(m) \o <<":">> \o TwoDigits(s)
    \o <<sep>> \o TwoDigits(f)

DataLine(userBits, timecode) ==
    [kind |-> "data", bars |-> 1, userBits |-> userBits, timecode |-> timecode]

\* 25091500: 15 September 2025.
ValidUserBits == <<"2", "5", "0", "9", "1", "5", "0", "0">>

\* Every hour with the minute, second and frame at their edges, and the
\* first and last valid hours with more of each.
TimeLines ==
    {DataLine(ValidUserBits, Timecode(h, m, s, sep, f)) :
        h \in 0..99, m \in {0, 59, 61}, s \in {0, 60}, f \in {0, 4, 29},
        sep \in {":", "."}}
    \cup {DataLine(ValidUserBits, Timecode(h, m, s, sep, f)) :
        h \in {0, 1, 23}, m \in {0, 1, 59, 60, 99}, s \in {0, 1, 59, 61, 99},
        f \in {0, 1, 30, 99}, sep \in {":", "."}}

\* User bits as ltcdump prints them: eight hexadecimal digits.
YearChars  == {<<"2", "5">>, <<"0", "0">>, <<"9", "9">>, <<"c", "e">>}
MonthChars == {<<"0", "0">>, <<"0", "1">>, <<"0", "9">>, <<"1", "2">>, <<"1", "3">>,
               <<"4", "1">>, <<"1", "a">>, <<"c", "1">>}
DayChars   == {<<"0", "0">>, <<"0", "1">>, <<"1", "5">>, <<"3", "1">>, <<"3", "2">>,
               <<"8", "1">>, <<"d", "0">>}

DateLines ==
    {DataLine(yy \o mm \o dd \o <<"0", "0">>, tc) :
        yy \in YearChars, mm \in MonthChars, dd \in DayChars,
        tc \in {Timecode(1, 2, 3, ":", 4), Timecode(25, 61, 0, ".", 0)}}

\* Lines the filter drops, lines parseLTCFrame returns null for, and a
\* timecode the pattern matches past its first character.
OddLines ==
    { [kind |-> "comment", bars |-> 0, userBits |-> <<"#">>, timecode |-> << >>],
      [kind |-> "blank", bars |-> 0, userBits |-> << >>, timecode |-> << >>],
      [kind |-> "discontinuity", bars |-> 1, userBits |-> ValidUserBits,
       timecode |-> Timecode(1, 2, 3, ":", 4)],
      [kind |-> "data", bars |-> 0, userBits |-> ValidUserBits,
       timecode |-> Timecode(1, 2, 3, ":", 4)],
      [kind |-> "data", bars |-> 2, userBits |-> ValidUserBits,
       timecode |-> Timecode(1, 2, 3, ":", 4)],
      DataLine(SubSeq(ValidUserBits, 1, 7), Timecode(1, 2, 3, ":", 4)),
      DataLine(ValidUserBits, <<"1", ":", "0", "2", ":", "0", "3", ":", "0", "4">>),
      DataLine(ValidUserBits, Timecode(1, 2, 3, "-", 4)),
      DataLine(<<"2", "5", "1", "3", "0", "1", "0", "0">>, Timecode(1, 2, 3, "-", 4)),
      DataLine(ValidUserBits, <<"0">> \o Timecode(26, 2, 3, ":", 4)) }

\* The lines of the outputs of several lines.
SequenceLines ==
    { DataLine(ValidUserBits, Timecode(0, 0, 0, ":", 0)),
      DataLine(ValidUserBits, Timecode(0, 0, 1, ":", 0)),
      DataLine(ValidUserBits, Timecode(0, 59, 59, ":", 29)),
      DataLine(ValidUserBits, Timecode(0, 61, 0, ":", 0)),
      DataLine(ValidUserBits, Timecode(1, 0, 0, ":", 0)),
      DataLine(ValidUserBits, Timecode(0, 1, 0, ".", 0)),
      DataLine(ValidUserBits, Timecode(0, 0, 61, ".", 4)),
      DataLine(<<"2", "5", "c", "1", "0", "5", "0", "0">>, Timecode(25, 0, 0, ":", 0)),
      DataLine(ValidUserBits, Timecode(1, 2, 3, "-", 4)),
      [kind |-> "comment", bars |-> 0, userBits |-> <<"#">>, timecode |-> << >>] }

LtcOutputs ==
    {<<line>> : line \in TimeLines \cup DateLines \cup OddLines}
    \cup UNION {[1..n -> SequenceLines] : n \in 0..MaxLines}

\* The wall-clock dates of a run.
Dates == { [year |-> 2026, month |-> 11, day |-> 4],
           [year |-> 2027, month |-> 1, day |-> 31] }

\* The sample rates of the files being updated.
SampleRates == {44100, 48000, 96000}

ValidateInit ==
    /\ ltcOutput \in LtcOutputs
    /\ dumpThrows \in BOOLEAN
    /\ dumpThrows => ltcOutput = << >>
    /\ now \in Dates
    /\ targetSampleRate \in SampleRates
    /\ frames = << >>
    /\ warnings = << >>
    /\ referenceFrame = NULL
    /\ timeReference = NULL
    /\ creationTime = << >>
    /\ vpc = "start"
    /\ FrameIdle
    /\ SyncIdle
    /\ RecoverIdle
    /\ DigitizeIdle
    /\ DateIdle

\* runLTCdump(): execSync throws, or no line is left after the filter
\* (both end in `throw`), or every line is parsed.
RunLTCdump ==
    /\ vpc = "start"
    /\ IF dumpThrows \/ KeptLines(ltcOutput) = << >>
         THEN /\ vpc' = "failed"
              /\ UNCHANGED <<frames, warnings>>
         ELSE LET r == ParseLines(KeptLines(ltcOutput), now)
              IN /\ frames' = r.frames
                 /\ warnings' = warnings \o r.warns
                 /\ vpc' = "dumped"
    /\ UNCHANGED <<ltcOutput, dumpThrows, now, targetSampleRate, referenceFrame,
                   timeReference, creationTime, frameVars, syncVars, recoverVars, digitizeVars, dateVars>>

\* getFirstValidFrame(frames): throws on an empty list, else frames[0].
GetFirstValidFrame ==
    /\ vpc = "dumped"
    /\ IF Len(frames) = 0
         THEN vpc' = "failed" /\ UNCHANGED referenceFrame
         ELSE vpc' = "picked" /\ referenceFrame' = frames[1]
    /\ UNCHANGED <<ltcOutput, dumpThrows, now, targetSampleRate, frames, warnings,
                   timeReference, creationTime, frameVars, syncVars, recoverVars, digitizeVars, dateVars>>

\* const timeReference = this.calculateTimeReference(referenceFrame)
CalculateTimeReference ==
    /\ vpc = "picked"
    /\ timeReference' = calculateTimeReference(referenceFrame)
    /\ vpc' = "timed"
    /\ UNCHANGED <<ltcOutput, dumpThrows, now, targetSampleRate, frames, warnings,
                   referenceFrame, creationTime, frameVars, syncVars, recoverVars, digitizeVars, dateVars>>

\* const creationTime = this.formatCreationTime(referenceFrame)
FormatCreationTime ==
    /\ vpc = "timed"
    /\ creationTime' = formatCreationTime(referenceFrame)
    /\ vpc' = "formatted"
    /\ UNCHANGED <<ltcOutput, dumpThrows, now, targetSampleRate, frames, warnings,
                   referenceFrame, timeReference, frameVars, syncVars, recoverVars, digitizeVars, dateVars>>

ValidateNext ==
    RunLTCdump \/ GetFirstValidFrame \/ CalculateTimeReference \/ FormatCreationTime

SpecValidate == ValidateInit /\ [][ValidateNext]_vars

---------------------------------------------------------------------------
(* Claims about the validator and the derivations (SpecValidate).          *)

Abs(x) == IF x < 0 THEN -x ELSE x

\* The two digits the timecode pattern captured at offset k of its match,
\* read as a number: k = 0 hour, 3 minute, 6 second, 9 frame.
RawField(f, k) ==
    LET p == TimecodeMatch(f.timecode)
    IN DigitOf[f.timecode[p + k]] * 10 + DigitOf[f.timecode[p + k + 1]]

FrameSet == {frames[i] : i \in 1..Len(frames)}
WarningSet == {warnings[i] : i \in 1..Len(warnings)}

\* The reference frame has been derived from.
Derived == vpc \in {"timed", "formatted"}

\* hour*3600 + minute*60 + second of a frame with the given minute, second.
WholeSeconds(f, minute, second) == f.hour * 3600 + minute * 60 + second

\* count is the integer nearest to
\* (whole * frameRate + frame) * 48000 / frameRate, for frame rate fr100/100.
IsRoundedAt48k(count, whole, frame, fr100) ==
    LET beyond == (count.seconds - whole) * 48000 + count.samples
    IN /\ count.samples \in 0..47999
       /\ 2 * Abs(beyond * fr100 - frame * 4800000) <= fr100

\* round(totalFrames * rate / frameRate) for a rate that is a multiple of
\* 300, as seconds * 48000 + samples.
RoundedAtRate(f, rate) ==
    LET whole == WholeSeconds(f, f.minute, f.second)
        k     == rate \div 300
    IN SampleCount((whole * k) \div 160,
                   ((whole * k) % 160) * 300
                       + MathRound(f.frame * 100 * rate, FrameRate100(f)))

\* C5 as stated: the time reference is round(totalFrames * targetSampleRate
\* / frameRate) for the sample rate of the file being updated.
C5_AtTargetSampleRate ==
    Derived => timeReference = RoundedAtRate(referenceFrame, targetSampleRate)

\* C5 amended: the time reference is round(totalFrames * 48000 / frameRate)
\* whatever the sample rate of the file being updated, with frameRate 29.97
\* for a drop-frame and 30 otherwise; non-drop 00:00:01:00 gives 48000 and
\* drop-frame 00:01:00:00 gives 2880000.
C5_TimeReferenceAt48k ==
    Derived =>
        LET f == referenceFrame
        IN /\ IsRoundedAt48k(timeReference,
                             WholeSeconds(f, f.minute, f.second), f.frame,
                             IF f.dropFrame THEN 2997 ELSE 3000)
           /\ (~f.dropFrame /\ f.hour = 0 /\ f.minute = 0 /\ f.second = 1 /\ f.frame = 0)
                 => timeReference = [seconds |-> 1, samples |-> 0]
           /\ (f.dropFrame /\ f.hour = 0 /\ f.minute = 1 /\ f.second = 0 /\ f.frame = 0)
                 => timeReference = [seconds |-> 60, samples |-> 0]

\* Drop-frame 00:00:00.04 for a 96 kHz file: round(4 * 48000 / 29.97) = 6406.
C5_Witness ==
    /\ Derived
    /\ targetSampleRate = 96000
    /\ referenceFrame.dropFrame
    /\ referenceFrame.hour = 0 /\ referenceFrame.minute = 0
    /\ referenceFrame.second = 0 /\ referenceFrame.frame = 4
    /\ timeReference = [seconds |-> 0, samples |-> 6406]

\* (hour, minute, second, frame) of a is lexicographically <= that of b.
LexLe(a, b) ==
    \/ a.hour < b.hour
    \/ a.hour = b.hour /\ a.minute < b.minute
    \/ a.hour = b.hour /\ a.minute = b.minute /\ a.second < b.second
    \/ a.hour = b.hour /\ a.minute = b.minute /\ a.second = b.second
          /\ a.frame <= b.frame

CountLe(a, b) ==
    a.seconds < b.seconds \/ (a.seconds = b.seconds /\ a.samples <= b.samples)

\* C6: for two frames of one frame rate returned by the validator, the
\* time reference does not decrease as (hour, minute, second, frame) grows.
C6_Monotonic ==
    \A a, b \in FrameSet :
        (a.dropFrame = b.dropFrame /\ LexLe(a, b))
            => CountLe(calculateTimeReference(a), calculateTimeReference(b))

\* C7: every returned frame has its hour in 0..23; an hour >= 24 is stored
\* modulo 24 and reported, a smaller one is stored as it is and not reported.
C7_HourCorrected ==
    /\ \A f \in FrameSet :
          LET h == RawField(f, 0)
          IN /\ f.hour \in 0..23
             /\ h >= 24 => f.hour = h % 24 /\ Warning("hour", h, h % 24) \in WarningSet
             /\ h < 24 => f.hour = h
    /\ \A w \in WarningSet : w.kind = "hour" => w.value >= 24
    /\ Cardinality({i \in 1..Len(warnings) : warnings[i].kind = "hour"})
          = Cardinality({i \in 1..Len(frames) : RawField(frames[i], 0) >= 24})

\* Hour 25 has come back as 1, with its correction reported.
C7_Witness ==
    \E f \in FrameSet :
        /\ RawField(f, 0) = 25 /\ f.hour = 1
        /\ Warning("hour", 25, 1) \in WarningSet

\* The lines parseLTCFrame has no reason to return null for.
WellFormed(line) ==
    /\ line.kind = "data" /\ line.bars = 1 /\ Len(line.userBits) = 8
    /\ \E p \in 1..Len(line.timecode) : TimecodeMatchesAt(line.timecode, p)

UserBitsMonth(f) == ParseInt(SubSeq(f.userBits, 3, 4))
UserBitsDay(f) == ParseInt(SubSeq(f.userBits, 5, 6))

\* C9: every returned frame has its month in 1..12 and its day in 1..31; a
\* user-bit month or day outside these replaces the whole date by the
\* wall-clock date and is reported; otherwise the user-bit date is kept.
C9_DateInRange ==
    \A f \in FrameSet :
        /\ f.month \in 1..12
        /\ f.day \in 1..31
        /\ IF UserBitsMonth(f) \in 1..12 /\ UserBitsDay(f) \in 1..31
             THEN /\ f.month = UserBitsMonth(f)
                  /\ f.day = UserBitsDay(f)
                  /\ f.year = ParseInt(<<"2", "0">> \o SubSeq(f.userBits, 1, 2))
             ELSE /\ f.year = now.year /\ f.month = now.month /\ f.day = now.day
                  /\ Warning("date", 0, 0) \in WarningSet

---------------------------------------------------------------------------
(* Orchestration: LTCSyncTool's constructor, syncTimecode and              *)
(* processSingleSourceFile.  A file is its base name split at "_" and its  *)
(* lower-cased extension; all files are in one directory.                  *)

Range(s) == {s[i] : i \in 1..Len(s)}

WavFile(parts) == [parts |-> parts, ext |-> "wav"]

IsWav(file) == file.ext = "wav"

\* isSiblingFile(sourceBase, targetBase)
isSiblingFile(sourceParts, targetParts) ==
    IF Len(sourceParts) < 3 \/ Len(targetParts) < 3
      THEN FALSE
      ELSE SubSeq(sourceParts, 1, 2) = SubSeq(targetParts, 1, 2)

\* findSiblingFiles(): the .wav files of the directory other than the source
\* whose names are siblings of the source's, in the directory's order.
findSiblingFiles(dir, source) ==
    LET Keep(file) == /\ IsWav(file)
                      /\ file # source
                      /\ isSiblingFile(source.parts, file.parts)
    IN SelectSeq(dir, Keep)

\* discoverFilePatterns(): the last name part of every .wav file whose name
\* has at least three parts.
Patterns(dir) ==
    {f.parts[Len(f.parts)] : f \in {g \in Range(dir) : IsWav(g) /\ Len(g.parts) >= 3}}

\* patternFiles.get(selectedPattern)
PatternFiles(dir, pattern) ==
    LET Keep(file) == /\ IsWav(file)
                      /\ Len(file.parts) >= 3
                      /\ file.parts[Len(file.parts)] = pattern
    IN SelectSeq(dir, Keep)

\* The files a directory may hold, in the order readdirSync lists them.
Universe ==
    << WavFile(<<"250913", "0009", "1-2">>),
       WavFile(<<"250913", "0009", "3">>),
       WavFile(<<"250913", "0009", "5-6">>),
       [parts |-> <<"250913", "0009", "notes">>, ext |-> "txt"],
       WavFile(<<"250913", "0010", "1-2">>),
       WavFile(<<"250913", "0010", "3">>),
       WavFile(<<"250913", "0011", "a", "1-2">>),
       WavFile(<<"250913", "0011", "b", "1-2">>),
       WavFile(<<"mix", "1-2">>) >>

Listings ==
    {LET Held(file) == file \in held IN SelectSeq(Universe, Held) :
        held \in SUBSET Range(Universe)}

\* The state after main() has constructed its tool: for a directory,
\* isDirectoryMode; for a .wav file, its siblings.
SyncInit ==
    /\ listing \in Listings
    /\ \/ /\ isDirectoryMode = TRUE
          /\ sourceFile = NULL
          /\ siblingFiles = << >>
       \/ /\ isDirectoryMode = FALSE
          /\ sourceFile \in {f \in Range(listing) : IsWav(f)}
          /\ siblingFiles = findSiblingFiles(listing, sourceFile)
    /\ sourceFiles = << >>
    /\ sourceIndex = 0
    /\ siblingIndex = 0
    /\ calls = << >>
    /\ processed = {}
    /\ spc = "sync"
    /\ FrameIdle
    /\ ValidateIdle
    /\ RecoverIdle
    /\ DigitizeIdle
    /\ DateIdle

Call(tool, file, ok) ==
    [tool |-> tool, file |-> file, source |-> sourceFile, ok |-> ok]

\* for (const sourceFile of sourceFiles): on to the next source file, or
\* past the loop.
NextSource ==
    /\ sourceIndex' = sourceIndex + 1
    /\ spc' = IF sourceIndex < Len(sourceFiles) THEN "source" ELSE "done"

\* for (const filePath of siblingFiles): on to the next sibling, or past the
\* loop and to the end of the enclosing try block.
NextSibling ==
    IF siblingIndex < Len(siblingFiles)
      THEN /\ siblingIndex' = siblingIndex + 1
           /\ spc' = "verify"
           /\ UNCHANGED sourceIndex
      ELSE /\ UNCHANGED siblingIndex
           /\ IF isDirectoryMode
                THEN NextSource
                ELSE spc' = "done" /\ UNCHANGED sourceIndex

\* syncTimecode(), directory mode, up to the loop over the source files.
\* With no pattern to offer, promptForPattern never resolves.
SyncDirectory ==
    /\ spc = "sync"
    /\ isDirectoryMode
    /\ \E selectedPattern \in Patterns(listing) :
          /\ sourceFiles' = PatternFiles(listing, selectedPattern)
          /\ sourceIndex' = 1
          /\ spc' = IF PatternFiles(listing, selectedPattern) = << >>
                      THEN "done" ELSE "source"
    /\ UNCHANGED <<listing, isDirectoryMode, sourceFile, siblingFiles,
                   siblingIndex, calls, processed, frameVars, validateVars, recoverVars, digitizeVars, dateVars>>

\* syncTimecode(), single-file mode, up to the try block.
SyncFile ==
    /\ spc = "sync"
    /\ ~isDirectoryMode
    /\ spc' = IF siblingFiles = << >> THEN "done" ELSE "extract"
    /\ UNCHANGED <<listing, isDirectoryMode, sourceFile, siblingFiles, sourceFiles,
                   sourceIndex, siblingIndex, calls, processed, frameVars,
                   validateVars, recoverVars, digitizeVars, dateVars>>

\* processSingleSourceFile(sourceFile), up to the try block: the tool is
\* constructed for the file (statSync and readdirSync may throw; nothing
\* catches that before main, which exits with 1), and a file without
\* siblings is passed over.
ProcessSingleSourceFile ==
    /\ spc = "source"
    /\ sourceIndex <= Len(sourceFiles)
    /\ processed' = processed \cup {sourceFiles[sourceIndex]}
    /\ \E constructed \in BOOLEAN :
          IF ~constructed
            THEN /\ spc' = "exit1"
                 /\ UNCHANGED <<sourceFile, siblingFiles, sourceIndex>>
            ELSE /\ sourceFile' = sourceFiles[sourceIndex]
                 /\ siblingFiles' = findSiblingFiles(listing, sourceFiles[sourceIndex])
                 /\ IF findSiblingFiles(listing, sourceFiles[sourceIndex]) = << >>
                      THEN NextSource
                      ELSE spc' = "extract" /\ UNCHANGED sourceIndex
    /\ UNCHANGED <<listing, isDirectoryMode, sourceFiles, siblingIndex, calls,
                   frameVars, validateVars, recoverVars, digitizeVars, dateVars>>

\* runLTCdump() to formatCreationTime(): a reference frame and its metadata
\* values, or a throw, which ends the run in single-file mode and this source
\* file in directory mode.
Extract ==
    /\ spc = "extract"
    /\ \E ok \in BOOLEAN :
          /\ calls' = Append(calls, Call("ltcdump", sourceFile, ok))
          /\ IF ok
               THEN /\ siblingIndex' = 1
                    /\ spc' = "verify"
                    /\ UNCHANGED sourceIndex
               ELSE /\ UNCHANGED siblingIndex
                    /\ IF isDirectoryMode
                         THEN NextSource
                         ELSE spc' = "exit1" /\ UNCHANGED sourceIndex
    /\ UNCHANGED <<listing, isDirectoryMode, sourceFile, siblingFiles, sourceFiles,
                   processed, frameVars, validateVars, recoverVars, digitizeVars, dateVars>>

\* verifyFileMetadata(filePath) before the update; a throw is caught by the
\* try block of the sibling.
VerifyCurrent ==
    /\ spc = "verify"
    /\ \E ok \in BOOLEAN :
          /\ calls' = Append(calls, Call("ffprobe", siblingFiles[siblingIndex], ok))
          /\ IF ok
               THEN spc' = "update" /\ UNCHANGED <<siblingIndex, sourceIndex>>
               ELSE NextSibling
    /\ UNCHANGED <<listing, isDirectoryMode, sourceFile, siblingFiles, sourceFiles,
                   processed, frameVars, validateVars, recoverVars, digitizeVars, dateVars>>

\* updateFileMetadata(filePath, timeReference, creationTime, referenceFrame)
UpdateFileMetadata ==
    /\ spc = "update"
    /\ \E ok \in BOOLEAN :
          /\ calls' = Append(calls, Call("bwfmetaedit", siblingFiles[siblingIndex], ok))
          /\ IF ok
               THEN spc' = "reverify" /\ UNCHANGED <<siblingIndex, sourceIndex>>
               ELSE NextSibling
    /\ UNCHANGED <<listing, isDirectoryMode, sourceFile, siblingFiles, sourceFiles,
                   processed, frameVars, validateVars, recoverVars, digitizeVars, dateVars>>

\* verifyFileMetadata(filePath) after the update.
VerifyUpdate ==
    /\ spc = "reverify"
    /\ \E ok \in BOOLEAN :
          /\ calls' = Append(calls, Call("ffprobe", siblingFiles[siblingIndex], ok))
          /\ NextSibling
    /\ UNCHANGED <<listing, isDirectoryMode, sourceFile, siblingFiles, sourceFiles,
                   processed, frameVars, validateVars, recoverVars, digitizeVars, dateVars>>

SyncNext ==
    \/ SyncDirectory
    \/ SyncFile
    \/ ProcessSingleSourceFile
    \/ Extract
    \/ VerifyCurrent
    \/ UpdateFileMetadata
    \/ VerifyUpdate

SpecSync == SyncInit /\ [][SyncNext]_vars

---------------------------------------------------------------------------
(* Claims about the orchestration (SpecSync).                              *)

\* The run has come to its end: syncTimecode returned, or the process exited.
RunEnded == spc \in {"done", "exit1"}

\* The verify/update sequence was started for the sibling on behalf of the
\* source: its first step, the verification, was called.
SequenceStarted(source, sibling) ==
    \E i \in 1..Len(calls) :
        /\ calls[i].tool = "ffprobe"
        /\ calls[i].file = sibling
        /\ calls[i].source = source

\* Where a reference frame was extracted, the sequence was started for
\* every sibling of the source, whatever failed for the siblings before it.
SiblingsAllStarted ==
    \A i \in 1..Len(calls) :
        (calls[i].tool = "ltcdump" /\ calls[i].ok)
            => \A sibling \in Range(findSiblingFiles(listing, calls[i].file)) :
                   SequenceStarted(calls[i].file, sibling)

\* C10: at the end of a run, every sibling of a source a reference frame
\* was extracted from has had its verify/update sequence started, and in
\* directory mode every source file has been processed, whatever failed
\* for the files before it.
C10_ProcessingContinues ==
    RunEnded =>
        /\ SiblingsAllStarted
        /\ isDirectoryMode => \A f \in Range(sourceFiles) : f \in processed

\* The failures the code catches leave both loops running: only a tool
\* that could not be constructed for a source file keeps later ones from
\* being processed.
CaughtFailuresContinue ==
    RunEnded =>
        /\ SiblingsAllStarted
        /\ (isDirectoryMode /\ spc = "done")
              => \A f \in Range(sourceFiles) : f \in processed

\* A directory run in which extraction failed for one source file, and the
\* verification of one sibling failed for another before a later sibling
\* was verified, has processed every file.
CaughtFailuresWitness ==
    /\ spc = "done" /\ isDirectoryMode /\ Len(sourceFiles) = 2
    /\ \E i, j, k \in 1..Len(calls) :
          /\ calls[i].tool = "ltcdump" /\ ~calls[i].ok
          /\ calls[j].tool = "ffprobe" /\ ~calls[j].ok
          /\ j < k
          /\ calls[k].tool = "ffprobe"
          /\ calls[k].source = calls[j].source
          /\ calls[k].file # calls[j].file

\* The update was attempted for the sibling on behalf of the source.
UpdateAttempted(source, sibling) ==
    \E i \in 1..Len(calls) :
        /\ calls[i].tool = "bwfmetaedit"
        /\ calls[i].file = sibling
        /\ calls[i].source = source

\* Every update was attempted after a reference frame had been extracted
\* from its source.
UpdatesFollowExtraction ==
    \A i \in 1..Len(calls) :
        calls[i].tool = "bwfmetaedit"
            => \E j \in 1..(i - 1) :
                   /\ calls[j].tool = "ltcdump" /\ calls[j].ok
                   /\ calls[j].file = calls[i].source

\* The call after every update that succeeded is the verification of the
\* same file, or is about to be.
UpdatesAreVerified ==
    \A i \in 1..Len(calls) :
        (calls[i].tool = "bwfmetaedit" /\ calls[i].ok)
            => IF i < Len(calls)
                 THEN /\ calls[i + 1].tool = "ffprobe"
                      /\ calls[i + 1].file = calls[i].file
                      /\ calls[i + 1].source = calls[i].source
                 ELSE spc = "reverify" /\ siblingFiles[siblingIndex] = calls[i].file

\* C11: once a reference frame has been extracted the update is attempted
\* on every sibling by the end of the run; every attempted update follows
\* the extraction, and every update that succeeds is followed by the
\* verification of the same file before another file is touched.
C11_EverySiblingUpdated ==
    /\ RunEnded =>
          \A i \in 1..Len(calls) :
              (calls[i].tool = "ltcdump" /\ calls[i].ok)
                  => \A sibling \in Range(findSiblingFiles(listing, calls[i].file)) :
                         UpdateAttempted(calls[i].file, sibling)
    /\ UpdatesFollowExtraction
    /\ UpdatesAreVerified

\* What holds of the order of the calls: extraction before every update, a
\* verification right after every update that succeeded, and an update
\* attempted on exactly the siblings whose first verification succeeded.
UpdateOrderKept ==
    /\ UpdatesFollowExtraction
    /\ UpdatesAreVerified
    /\ \A i \in 1..Len(calls) :
          calls[i].tool = "bwfmetaedit"
              => /\ i > 1
                 /\ calls[i - 1].tool = "ffprobe" /\ calls[i - 1].ok
                 /\ calls[i - 1].file = calls[i].file

---------------------------------------------------------------------------
(* Bit recovery: the loops of detectManchesterBits and                     *)
(* detectManchesterBitsFromPosition, and findFirstValidLTCFrame around the *)
(* former.  samplesPerBit is held as an exact fraction; on the traces used *)
(* here the double-precision comparisons of the code come out the same.    *)

RECURSIVE Gcd(_, _)
Gcd(a, b) == IF b = 0 THEN a ELSE Gcd(b, a % b)

\* The fraction n/d in lowest terms.
Fraction(n, d) == [num |-> n \div Gcd(n, d), den |-> d \div Gcd(n, d)]

\* const bitsPerSecond = 2400
bitsPerSecond == 2400

\* const expectedSamplesPerBit = sampleRate / bitsPerSecond
expectedSamplesPerBit(rate) == Fraction(rate, bitsPerSecond)

\* bits.length < 1000
FreeBudget == 1000
\* bits.length < 80
AnchoredBudget == 80

Budget(fn) == IF fn = "anchored" THEN AnchoredBudget ELSE FreeBudget

\* samplesPerBit * 0.99 + samplesSinceChange * 0.01, in hundredths
FreeKeep == 99
\* samplesPerBit * 0.95 + samplesSinceChange * 0.05, in hundredths
AnchoredKeep == 95

Keep(fn) == IF fn = "anchored" THEN AnchoredKeep ELSE FreeKeep

\* samplesSinceChange < halfBitPeriod * 1.5, halfBitPeriod = samplesPerBit * 0.5
IsHalfBit(e, p) == 4 * e * p.den < 3 * p.num

\* samplesSinceChange < fullBitPeriod * 1.5, fullBitPeriod = samplesPerBit
IsFullBit(e, p) == 2 * e * p.den < 3 * p.num

\* samplesPerBit * keep/100 + samplesSinceChange * (100 - keep)/100
Smoothed(p, e, keep) ==
    Fraction(keep * p.num + (100 - keep) * e * p.den, 100 * p.den)

\* A recoverer that takes every half-bit interval for a whole 1.
OnChangeUnpaired(b, pending, p, e, keep) ==
    IF IsHalfBit(e, p)
      THEN [bits |-> Append(b, 1), pendingBit |-> FALSE, samplesPerBit |-> p]
    ELSE IF IsFullBit(e, p)
      THEN [bits |-> Append(b, 0), pendingBit |-> FALSE,
            samplesPerBit |-> Smoothed(p, e, keep)]
    ELSE [bits |-> b, pendingBit |-> FALSE, samplesPerBit |-> p]

\* A recoverer that smooths the bit period on every change.
OnChangeAlwaysSmoothed(b, pending, p, e, keep) ==
    IF IsHalfBit(e, p)
      THEN [ bits |-> IF pending THEN Append(b, 1) ELSE b,
             pendingBit |-> ~pending,
             samplesPerBit |-> Smoothed(p, e, keep) ]
    ELSE IF IsFullBit(e, p)
      THEN [ bits |-> Append(IF pending THEN Append(b, 1) ELSE b, 0),
             pendingBit |-> FALSE,
             samplesPerBit |-> Smoothed(p, e, keep) ]
    ELSE [ bits |-> IF pending THEN Append(b, 1) ELSE b,
           pendingBit |-> FALSE,
           samplesPerBit |-> Smoothed(p, e, keep) ]

\* The body of `if (newState !== currentState)` but for its last two lines:
\* what becomes of bits, pendingBit and samplesPerBit.
OnChange(b, pending, p, e, keep) ==
    IF IsHalfBit(e, p)
      THEN [ bits |-> IF pending THEN Append(b, 1) ELSE b,
             pendingBit |-> ~pending,
             samplesPerBit |-> p ]
    ELSE IF IsFullBit(e, p)
      THEN [ bits |-> Append(IF pending THEN Append(b, 1) ELSE b, 0),
             pendingBit |-> FALSE,
             samplesPerBit |-> Smoothed(p, e, keep) ]
    ELSE [ bits |-> IF pending THEN Append(b, 1) ELSE b,
           pendingBit |-> FALSE,
           samplesPerBit |-> p ]

\* A loop that stops at the end of the trace only.
LoopContinuesToEnd(i, trace, b, fn) == i < Len(trace)

\* i < digital.length && bits.length < budget
LoopContinues(i, trace, b, fn) == i < Len(trace) /\ Len(b) < Budget(fn)

\* A flush that pushes a 1 whether or not a half bit is pending.
FlushedUnasked(b, pending, fn) == Append(b, 1)

\* if (pendingBit) bits.push(1)
\* if (pendingBit && bits.length < 80) bits.push(1)
Flushed(b, pending, fn) ==
    IF pending /\ (fn # "anchored" \/ Len(b) < AnchoredBudget)
      THEN Append(b, 1) ELSE b

\* A pass that starts from level 1 whatever the first sample is.
FirstStateHigh(trace) == 1

\* digital[0] ? 1 : 0, where digital[0] of an empty array is undefined
FirstState(trace) == IF Len(trace) > 0 /\ trace[1] THEN 1 ELSE 0

\* const frameSamples = Math.round(expectedSamplesPerBit * 80)
\* const chunkSize = frameSamples * 4
chunkSize(rate) == MathRound(rate * 80, bitsPerSecond) * 4

\* startPos += Math.round(expectedSamplesPerBit * 10)
searchStep(rate) == MathRound(rate * 10, bitsPerSecond)

---------------------------------------------------------------------------
(* Polarity traces.                                                        *)

\* A run of n samples at one level.
Level(n, v) == [k \in 1..n |-> v]

\* Runs of the given lengths, the first at level v, each at the level
\* opposite to the one before.
RECURSIVE RunsToTrace(_, _)
RunsToTrace(runs, v) ==
    IF runs = << >> THEN << >>
    ELSE Level(Head(runs), v) \o RunsToTrace(Tail(runs), ~v)

Ones(b, k) == Cardinality({j \in 1..k : b[j] = 1})

\* Biphase mark at a half period of h samples: the level changes at the
\* start of every bit, and again in the middle of a 1.  `before` is the
\* level ahead of the first bit; a closing change and h more samples follow
\* the last bit.
EncodeBiphase(b, h, before) ==
    [n \in 1..(2 * h * Len(b) + h) |->
        LET k       == (n - 1) \div (2 * h)
            inBit   == k < Len(b)
            changes == IF inBit
                         THEN k + 1 + Ones(b, k)
                              + (IF (n - 1) % (2 * h) >= h /\ b[k + 1] = 1 THEN 1 ELSE 0)
                         ELSE Len(b) + 1 + Ones(b, Len(b))
        IN before = (changes % 2 = 0)]

\* Half a nominal bit period in samples, for the rates with a whole one.
HalfPeriod(rate) == rate \div (2 * bitsPerSecond)

\* The run lengths tried, in samples: at 9600 Hz 1-2 are half bits, 3-5
\* full bits and 6 is long; at 4800 Hz 1 is a half bit and 2 a full bit.
RunLengths == 1..6
\* The most runs in an exhaustively tried trace.
MaxRuns == 4
\* The most bits in an exhaustively tried biphase encoding.
MaxBits == 5
\* The longest of the short traces without a change.
MaxConstant == 3

Rates == {4800, 9600}

Made(kind, runs, bitsIn, frameStart) ==
    [kind |-> kind, runs |-> runs, bitsIn |-> bitsIn, frameStart |-> frameStart]

TraceInput(fn, rate, trace, made) ==
    [entry |-> fn, sampleRate |-> rate, digital |-> trace, encoded |-> made]

\* Every sequence of up to MaxRuns runs.
RunInputs ==
    {TraceInput(fn, rate, RunsToTrace(runs, TRUE), Made("runs", runs, << >>, 0)) :
        fn \in {"free", "anchored"}, rate \in Rates,
        runs \in UNION {[1..m -> RunLengths] : m \in 0..MaxRuns}}

\* Traces without a change: short ones, and one longer than a search chunk.
ConstantInputs ==
    {TraceInput(fn, 4800, Level(n, v), Made("constant", << >>, << >>, 0)) :
        fn \in {"free", "anchored", "find"}, n \in 0..MaxConstant, v \in BOOLEAN}
    \cup {TraceInput("find", 4800, Level(chunkSize(4800) + 3 * searchStep(4800), v),
                     Made("constant", << >>, << >>, 0)) : v \in BOOLEAN}

\* An 80-bit frame and five more bits.
FrameAndMore == BuildFrame(ExampleFields, {}) \o <<1, 0, 1, 1, 0>>

\* A frame followed by n bits of value v.
FrameThen(n, v) == BuildFrame(ExampleFields, {}) \o [k \in 1..n |-> v]

\* Biphase encodings at the nominal period: every bit sequence of up to
\* MaxBits bits, 85 bits, and a frame followed by zeros, or by ones, to two
\* bits over the budget of the free scan.
BiphaseInputs ==
    {TraceInput(fn, rate, EncodeBiphase(b, HalfPeriod(rate), v), Made("biphase", << >>, b, 0)) :
        fn \in {"free", "anchored"}, rate \in Rates, v \in BOOLEAN,
        b \in BitSeqs(MaxBits)}
    \cup {TraceInput(fn, 4800, EncodeBiphase(b, 1, TRUE), Made("biphase", << >>, b, 0)) :
             fn \in {"free", "anchored"},
             b \in {FrameAndMore, FrameThen(FreeBudget - 78, 0),
                    FrameThen(FreeBudget - 78, 1)}}

\* The trace, and then runs of the given lengths.
Continued(trace, runs) == trace \o RunsToTrace(runs, ~trace[Len(trace)])

\* One bit short of the budget at the nominal period, whose closing change
\* and one sample stand as a half-bit run, then a full-bit run and one
\* sample more.
BudgetInputs ==
    {TraceInput(fn, 4800,
                Continued(EncodeBiphase(SubSeq(FrameThen(FreeBudget, 0), 1, Budget(fn) - 1),
                                        1, TRUE),
                          <<2, 1>>),
                Made("budget", << >>, << >>, 0)) : fn \in {"free", "anchored"}}

\* Streams for the first-frame scan at 4800 Hz: `lead` samples without a
\* change, then the stray bits and five frames, the first built from
\* ExampleFields.  The first frame begins at sample frameStart.
Stream(lead, stray) ==
    TraceInput("find", 4800,
               Level(lead, TRUE)
                   \o EncodeBiphase(stray \o BuildFrame(ExampleFields, {})
                                          \o BuildFrame(ZeroFields, {})
                                          \o BuildFrame(ZeroFields, {})
                                          \o BuildFrame(ZeroFields, {})
                                          \o BuildFrame(ZeroFields, {}), 1, TRUE),
               Made("stream", << >>, stray, lead + 2 * Len(stray)))

StreamInputs4800 ==
    {Stream(0, << >>), Stream(0, <<0, 0, 0>>), Stream(0, <<1, 0, 1>>),
     Stream(7, << >>), Stream(700, << >>)}

RecoverInputs ==
    RunInputs \cup ConstantInputs \cup BiphaseInputs \cup BudgetInputs
        \cup StreamInputs4800

RecoverInit ==
    /\ \E in \in RecoverInputs :
          /\ entry = in.entry
          /\ sampleRate = in.sampleRate
          /\ digital = in.digital
          /\ encoded = in.encoded
    /\ startPos = 0
    /\ chunk = << >>
    /\ loopIndex = 0
    /\ currentState = 0
    /\ samplesPerBit = NULL
    /\ samplesSinceChange = 0
    /\ pendingBit = FALSE
    /\ result = NULL
    /\ rpc = "call"
    /\ FrameIdle
    /\ ValidateIdle
    /\ SyncIdle
    /\ DigitizeIdle
    /\ DateIdle

\* The locals of a bit-recovery pass over the trace, as declared.
PassBegins(trace) ==
    /\ chunk' = trace
    /\ currentState' = FirstState(trace)
    /\ samplesPerBit' = expectedSamplesPerBit(sampleRate)
    /\ samplesSinceChange' = 0
    /\ bits' = << >>
    /\ pendingBit' = FALSE
    /\ loopIndex' = 1
    /\ rpc' = "loop"

\* detectManchesterBits(digital, sampleRate) or
\* detectManchesterBitsFromPosition(digital, sampleRate) is called.
CallDetect ==
    /\ rpc = "call"
    /\ entry \in {"free", "anchored"}
    /\ PassBegins(digital)
    /\ UNCHANGED <<digital, sampleRate, entry, startPos, result, encoded,
                   built, flips, scanned, frameCandidate, decodedFrom, ltcFrame,
                   validateVars, syncVars, digitizeVars,
                   dateVars>>

\* findFirstValidLTCFrame: the head of the for loop.  Either the next chunk
\* is cut and detectManchesterBits is called on it, or null is returned.
FindChunk ==
    /\ rpc = "call"
    /\ entry = "find"
    /\ IF startPos < Len(digital) - chunkSize(sampleRate)
         THEN /\ PassBegins(Slice(digital, startPos, startPos + chunkSize(sampleRate)))
              /\ UNCHANGED result
         ELSE /\ result' = NULL
              /\ rpc' = "returned"
              /\ UNCHANGED <<chunk, currentState, samplesPerBit, samplesSinceChange,
                             bits, pendingBit, loopIndex>>
    /\ UNCHANGED <<digital, sampleRate, entry, startPos, encoded,
                   built, flips, scanned, frameCandidate, decodedFrom, ltcFrame,
                   validateVars, syncVars, digitizeVars,
                   dateVars>>

\* One turn of the recovery loop.
RecoverStep ==
    /\ rpc = "loop"
    /\ LoopContinues(loopIndex, chunk, bits, entry)
    /\ LET newState == IF chunk[loopIndex + 1] THEN 1 ELSE 0
           elapsed  == samplesSinceChange + 1
           after    == OnChange(bits, pendingBit, samplesPerBit, elapsed, Keep(entry))
       IN IF newState # currentState
            THEN /\ bits' = after.bits
                 /\ pendingBit' = after.pendingBit
                 /\ samplesPerBit' = after.samplesPerBit
                 /\ currentState' = newState
                 /\ samplesSinceChange' = 0
            ELSE /\ samplesSinceChange' = elapsed
                 /\ UNCHANGED <<bits, pendingBit, samplesPerBit, currentState>>
    /\ loopIndex' = loopIndex + 1
    /\ UNCHANGED <<digital, sampleRate, entry, startPos, chunk, result, encoded, rpc,
                   built, flips, scanned, frameCandidate, decodedFrom, ltcFrame,
                   validateVars, syncVars, digitizeVars,
                   dateVars>>

\* detectManchesterBits past its loop: the pending half bit is flushed and
\* the sync scan runs over the bits collected.
FinishDetect ==
    /\ rpc = "loop"
    /\ entry \in {"free", "find"}
    /\ ~LoopContinues(loopIndex, chunk, bits, entry)
    /\ bits' = Flushed(bits, pendingBit, entry)
    /\ frameCandidate' = SyncScan(Flushed(bits, pendingBit, entry), 0)
    /\ IF entry = "free"
         THEN /\ result' = SyncScan(Flushed(bits, pendingBit, entry), 0)
              /\ rpc' = "returned"
         ELSE /\ rpc' = "scanned"
              /\ UNCHANGED result
    /\ UNCHANGED <<digital, sampleRate, entry, startPos, chunk, loopIndex,
                   currentState, samplesPerBit, samplesSinceChange, pendingBit,
                   encoded, built, flips, scanned, decodedFrom, ltcFrame,
                   validateVars, syncVars, digitizeVars,
                   dateVars>>

\* detectManchesterBitsFromPosition past its loop: the guarded flush, and
\* return bits.slice(0, 80).
FinishFromPosition ==
    /\ rpc = "loop"
    /\ entry = "anchored"
    /\ ~LoopContinues(loopIndex, chunk, bits, entry)
    /\ bits' = Flushed(bits, pendingBit, entry)
    /\ result' = Slice(Flushed(bits, pendingBit, entry), 0, 80)
    /\ rpc' = "returned"
    /\ UNCHANGED <<digital, sampleRate, entry, startPos, chunk, loopIndex,
                   currentState, samplesPerBit, samplesSinceChange, pendingBit,
                   encoded, built, flips, scanned, frameCandidate, decodedFrom,
                   ltcFrame, validateVars, syncVars, digitizeVars,
                   dateVars>>

\* findFirstValidLTCFrame, after detectManchesterBits has returned: the
\* frame and startPos are returned, or the search moves one step on.
FindDecide ==
    /\ rpc = "scanned"
    /\ IF Len(frameCandidate) >= 80 /\ parseLTCFrame(frameCandidate) # NULL
         THEN /\ ltcFrame' = parseLTCFrame(frameCandidate)
              /\ result' = [frame |-> parseLTCFrame(frameCandidate),
                            samplePosition |-> startPos]
              /\ rpc' = "returned"
              /\ UNCHANGED startPos
         ELSE /\ startPos' = startPos + searchStep(sampleRate)
              /\ rpc' = "call"
              /\ UNCHANGED <<ltcFrame, result>>
    /\ UNCHANGED <<digital, sampleRate, entry, chunk, loopIndex, currentState,
                   samplesPerBit, samplesSinceChange, pendingBit, encoded,
                   built, flips, bits, scanned, frameCandidate, decodedFrom,
                   validateVars, syncVars, digitizeVars,
                   dateVars>>

RecoverNext ==
    \/ CallDetect
    \/ FindChunk
    \/ RecoverStep
    \/ FinishDetect
    \/ FinishFromPosition
    \/ FindDecide

SpecRecover == RecoverInit /\ [][RecoverNext]_vars

---------------------------------------------------------------------------
(* Claims about bit recovery and the first-frame scan (SpecRecover).       *)

\* C12 as stated: the sample position returned with the first valid frame
\* is the sample at which that frame begins in the stream.
C12_AbsolutePosition ==
    (entry = "find" /\ rpc = "returned" /\ result # NULL)
        => result.samplePosition = encoded.frameStart

\* What the position returned is: the start of the search chunk the frame
\* was found in, a multiple of the search step at or before the frame.
PositionIsChunkStart ==
    (entry = "find" /\ rpc = "returned" /\ result # NULL)
        => /\ result.samplePosition = startPos
           /\ result.samplePosition % searchStep(sampleRate) = 0
           /\ result.samplePosition <= encoded.frameStart
           /\ result.frame = parseLTCFrame(BuildFrame(ExampleFields, {}))

PositionWitness ==
    /\ entry = "find" /\ rpc = "returned" /\ result # NULL
    /\ encoded.frameStart = 700
    /\ result.samplePosition = 220

\* C13 as stated: never more bits collected than the budget.
C13_WithinBudget == Len(bits) <= Budget(entry)

\* C13 amended: never more than one bit over the budget, and only by a 1
\* and a 0 pushed on one change; the anchored decode returns at most 80
\* bits and the free scan a window of 80 bits or nothing.
C13_BudgetPlusOne ==
    /\ Len(bits) <= Budget(entry) + 1
    /\ Len(bits) = Budget(entry) + 1
          => bits[Budget(entry)] = 1 /\ bits[Budget(entry) + 1] = 0
    /\ (rpc = "returned" /\ entry = "anchored") => Len(result) <= AnchoredBudget
    /\ (rpc = "returned" /\ entry = "free") => Len(result) \in {0, 80}

\* The free scan has collected 1001 bits.
C13_Witness ==
    /\ entry = "free" /\ rpc = "returned"
    /\ encoded.kind = "budget"
    /\ Len(bits) = FreeBudget + 1

\* C14: on a trace without a change no bit is collected, the scan and the
\* first-frame search report no frame, and every step can be taken.
C14_NoChangeNoFrame ==
    encoded.kind = "constant" =>
        /\ bits = << >>
        /\ frameCandidate = << >>
        /\ ltcFrame = NULL
        /\ rpc = "returned" => IF entry = "find" THEN result = NULL
                                                 ELSE result = << >>
        /\ rpc # "returned" => ENABLED RecoverNext

\* Three chunks of a constant trace have been searched, and null returned.
C14_Witness ==
    /\ encoded.kind = "constant"
    /\ entry = "find" /\ rpc = "returned" /\ result = NULL
    /\ startPos = 3 * searchStep(sampleRate)
    /\ ~digital[1]

IsPrefix(a, b) == Len(a) <= Len(b) /\ a = SubSeq(b, 1, Len(a))

\* C19: for a biphase encoding at the nominal period the bits collected are
\* always a prefix of the bits encoded, and at the end all of them up to
\* the budget.
C19_BiphaseRoundTrip ==
    encoded.kind = "biphase" =>
        /\ IsPrefix(bits, encoded.bitsIn)
        /\ rpc = "returned" =>
              /\ bits = SubSeq(encoded.bitsIn, 1, Min(Len(encoded.bitsIn), Budget(entry)))
              /\ entry = "anchored" => result = bits

\* A frame and 922 ones have come back without their last two ones.
C19_Witness ==
    /\ encoded.kind = "biphase"
    /\ entry = "free" /\ rpc = "returned"
    /\ Len(encoded.bitsIn) = FreeBudget + 2
    /\ encoded.bitsIn[FreeBudget] = 1
    /\ Len(bits) = FreeBudget /\ bits[FreeBudget] = 1

\* A step of the recovery loop at which the polarity changes.
ChangeStep ==
    /\ rpc = "loop" /\ rpc' = "loop"
    /\ loopIndex' = loopIndex + 1
    /\ (IF chunk[loopIndex + 1] THEN 1 ELSE 0) # currentState

WithPending == IF pendingBit THEN Append(bits, 1) ELSE bits

\* C20: on a polarity change after e samples at bit period p: e < 0.75 p
\* toggles the pending flag and emits a 1 if it was set; otherwise
\* e < 1.5 p emits the pending 1, then a 0, clears the flag and sets
\* p to p (1 - alpha) + e alpha, alpha being 0.01 in the free scan and 0.05
\* in the anchored decode; otherwise the pending 1 is emitted and the flag
\* cleared.  The elapsed count returns to 0, and p changes in no other case.
C20_Classification ==
    [][ChangeStep =>
          LET e     == samplesSinceChange + 1
              p     == samplesPerBit
              alpha == IF entry = "anchored" THEN 5 ELSE 1
          IN /\ samplesSinceChange' = 0
             /\ IF 100 * e * p.den < 75 * p.num
                  THEN /\ pendingBit' = ~pendingBit
                       /\ bits' = WithPending
                       /\ samplesPerBit' = p
                ELSE IF 100 * e * p.den < 150 * p.num
                  THEN /\ pendingBit' = FALSE
                       /\ bits' = Append(WithPending, 0)
                       /\ samplesPerBit'
                             = Fraction((100 - alpha) * p.num + alpha * e * p.den,
                                        100 * p.den)
                ELSE /\ pendingBit' = FALSE
                     /\ bits' = WithPending
                     /\ samplesPerBit' = p]_vars

\* In the free scan at 9600 Hz a half bit of 2 samples and then a full bit
\* of 3 have been met: 1 and 0 are out and the period is 3.99.
C20_Witness ==
    /\ entry = "free" /\ rpc = "loop" /\ sampleRate = 9600
    /\ encoded.kind = "runs"
    /\ bits = <<1, 0>>
    /\ ~pendingBit
    /\ samplesPerBit = [num |-> 399, den |-> 100]
    /\ samplesSinceChange = 0

---------------------------------------------------------------------------
(* audioToDigital: the samples of the data chunk to a polarity trace.      *)
(*                                                                         *)
(* bytesPerSample = bitsPerSample / 8 is a number, whole or not, so the    *)
(* offsets of the samples are held in bits (eighths of a byte).            *)

\* buffer[o]
Byte(b, o) == b[o + 1]

\* Math.floor((buffer.length - dataOffset) / bytesPerSample), for
\* dataOffset <= buffer.length and bitsPerSample > 0.
availableSamples(b, off, depth) == ((Len(b) - off) * 8) \div depth

\* dataOffset + i * bytesPerSample, in bits.
sampleOffset(off, i, depth) == off * 8 + i * depth

\* A read of `width` bytes at an offset given in bits throws a RangeError
\* when the offset is not an integer or the bytes end past the buffer.
ReadThrows(b, offsetBits, width) ==
    \/ offsetBits % 8 # 0
    \/ (offsetBits \div 8) + width > Len(b)

\* buffer.readInt8(o): one byte, two's complement.
readInt8(b, o) ==
    LET u == Byte(b, o)
    IN [kind |-> "int", value |-> IF u >= 128 THEN u - 256 ELSE u]

\* buffer.readInt16LE(o): two bytes, low byte first, two's complement.
readInt16LE(b, o) ==
    LET u == Byte(b, o) + 256 * Byte(b, o + 1)
    IN [kind |-> "int", value |-> IF u >= 32768 THEN u - 65536 ELSE u]

\* buffer.readFloatLE(o): four bytes, low byte first, IEEE 754 single
\* precision: 1 sign bit, 8 exponent bits, 23 mantissa bits.
readFloatLE(b, o) ==
    [ kind     |-> "float",
      sign     |-> Byte(b, o + 3) \div 128,
      exponent |-> (Byte(b, o + 3) % 128) * 2 + (Byte(b, o + 2) \div 128),
      mantissa |-> (Byte(b, o + 2) % 128) * 65536 + Byte(b, o + 1) * 256
                   + Byte(b, o) ]

\* The bytes one read takes.
ReadWidth(depth) == IF depth = 32 THEN 4 ELSE IF depth = 16 THEN 2 ELSE 1

\* if (bitsPerSample === 32) readFloatLE else if (=== 16) readInt16LE
\* else readInt8
ReadSample(b, o, depth) ==
    IF depth = 32 THEN readFloatLE(b, o)
    ELSE IF depth = 16 THEN readInt16LE(b, o)
    ELSE readInt8(b, o)

\* A comparison that also lets a sample at the threshold through.
AtOrAboveThreshold(sample) ==
    IF sample.kind = "int" THEN sample.value >= 0
    ELSE /\ ~(sample.exponent = 255 /\ sample.mantissa # 0)
         /\ (sample.sign = 0 \/ (sample.exponent = 0 /\ sample.mantissa = 0))

\* sample > threshold, with threshold = 0.  A float is above 0 when it is
\* not NaN, not negative and not a zero; +Infinity is above 0.
AboveThreshold(sample) ==
    IF sample.kind = "int" THEN sample.value > 0
    ELSE /\ ~(sample.exponent = 255 /\ sample.mantissa # 0)
         /\ sample.sign = 0
         /\ ~(sample.exponent = 0 /\ sample.mantissa = 0)

---------------------------------------------------------------------------
(* The buffers audioToDigital is run on: a header that is not read, whole  *)
(* samples, and bytes too few for another sample.                          *)

\* The most whole samples in a buffer.
MaxAvailable == 2

\* The bit depths: the three the function branches on, 24 (whole bytes,
\* no branch) and 12 (a byte and a half).
Depths == {8, 16, 32, 24, 12}

Int8Samples == {<<0>>, <<1>>, <<127>>, <<128>>, <<255>>}

Int16Samples ==
    {<<lo, hi>> : lo \in {0, 1, 255}, hi \in {0, 127, 128, 255}}

\* +0, -0, the least denormal and its negative, 1, -1, +Infinity,
\* -Infinity, and three NaNs.
FloatSamples ==
    { <<0, 0, 0, 0>>, <<0, 0, 0, 128>>, <<1, 0, 0, 0>>, <<1, 0, 0, 128>>,
      <<0, 0, 128, 63>>, <<0, 0, 128, 191>>, <<0, 0, 128, 127>>,
      <<0, 0, 128, 255>>, <<0, 0, 192, 127>>, <<1, 0, 128, 127>>,
      <<0, 0, 192, 255>> }

\* 24-bit samples: the low byte is what readInt8 meets, the high byte
\* holds the sign.
Int24Samples == {<<lo, 0, hi>> : lo \in {0, 1, 255}, hi \in {0, 128}}

\* Three bytes hold two 12-bit samples.
Int12Samples == {<<a, b, 0>> : a \in {0, 1, 255}, b \in {0, 128}}

SamplesOf(depth) ==
    IF depth = 8 THEN Int8Samples
    ELSE IF depth = 16 THEN Int16Samples
    ELSE IF depth = 32 THEN FloatSamples
    ELSE IF depth = 24 THEN Int24Samples
    ELSE Int12Samples

RECURSIVE Flatten(_)
Flatten(ss) == IF ss = << >> THEN << >> ELSE Head(ss) \o Flatten(Tail(ss))

\* Where parseWavHeader may find the data: after the usual 44 bytes, and
\* after a chunk of odd size.
DataOffsets == {44, 45}

DigitizeInputs ==
    { [ buffer        |-> [k \in 1..off |-> 1] \o Flatten(ss) \o tail,
        dataOffset    |-> off,
        bitsPerSample |-> depth,
        maxSamples    |-> cap ] :
        <<depth, ss>> \in
            UNION {{depth} \X UNION {[1..n -> SamplesOf(depth)] :
                                        n \in 0..MaxAvailable} :
                   depth \in Depths},
        off \in DataOffsets,
        tail \in {<< >>, <<1>>},
        cap \in 0..(MaxAvailable + 1) }

DigitizeInit ==
    /\ \E in \in DigitizeInputs :
        /\ buffer = in.buffer
        /\ dataOffset = in.dataOffset
        /\ bitsPerSample = in.bitsPerSample
        /\ maxSamples = in.maxSamples
    /\ numSamples = 0
    /\ sampleIndex = 0
    /\ polarity = << >>
    /\ thrown = NULL
    /\ dpc = "call"
    /\ FrameIdle
    /\ ValidateIdle
    /\ SyncIdle
    /\ RecoverIdle
    /\ DateIdle

\* audioToDigital(buffer, dataOffset, sampleRate, bitsPerSample, maxSamples)
\* to the head of its loop.
AudioToDigital ==
    /\ dpc = "call"
    /\ numSamples' = Min(availableSamples(buffer, dataOffset, bitsPerSample),
                         maxSamples)
    /\ sampleIndex' = 0
    /\ polarity' = << >>
    /\ dpc' = "loop"
    /\ UNCHANGED <<buffer, dataOffset, bitsPerSample, maxSamples, thrown,
                   frameVars, validateVars, syncVars, recoverVars, dateVars>>

\* One turn of the loop: read the sample, push sample > threshold.
DigitizeStep ==
    /\ dpc = "loop"
    /\ sampleIndex < numSamples
    /\ LET o == sampleOffset(dataOffset, sampleIndex, bitsPerSample)
       IN /\ ~ReadThrows(buffer, o, ReadWidth(bitsPerSample))
          /\ polarity' = Append(polarity,
                 AboveThreshold(ReadSample(buffer, o \div 8, bitsPerSample)))
    /\ sampleIndex' = sampleIndex + 1
    /\ UNCHANGED <<buffer, dataOffset, bitsPerSample, maxSamples, numSamples,
                   thrown, dpc,
                   frameVars, validateVars, syncVars, recoverVars, dateVars>>

\* One turn of the loop in which the buffer read throws: the error leaves
\* audioToDigital and parseFirstLTCFrame, which catch nothing.
DigitizeThrows ==
    /\ dpc = "loop"
    /\ sampleIndex < numSamples
    /\ ReadThrows(buffer, sampleOffset(dataOffset, sampleIndex, bitsPerSample),
                  ReadWidth(bitsPerSample))
    /\ thrown' = "RangeError"
    /\ dpc' = "thrown"
    /\ UNCHANGED <<buffer, dataOffset, bitsPerSample, maxSamples, numSamples,
                   sampleIndex, polarity,
                   frameVars, validateVars, syncVars, recoverVars, dateVars>>

\* return digital
DigitizeReturn ==
    /\ dpc = "loop"
    /\ sampleIndex >= numSamples
    /\ dpc' = "returned"
    /\ UNCHANGED <<buffer, dataOffset, bitsPerSample, maxSamples, numSamples,
                   sampleIndex, polarity, thrown,
                   frameVars, validateVars, syncVars, recoverVars, dateVars>>

\* parseFirstLTCFrame: return findFirstValidLTCFrame(digital, sampleRate)
DecodeDigital ==
    /\ dpc = "returned"
    /\ dpc' = "decoding"
    /\ UNCHANGED <<buffer, dataOffset, bitsPerSample, maxSamples, numSamples,
                   sampleIndex, polarity, thrown,
                   frameVars, validateVars, syncVars, recoverVars, dateVars>>

DigitizeNext ==
    \/ AudioToDigital
    \/ DigitizeStep
    \/ DigitizeThrows
    \/ DigitizeReturn
    \/ DecodeDigital

SpecDigitize == DigitizeInit /\ [][DigitizeNext]_vars

---------------------------------------------------------------------------
(* Claims about audioToDigital.                                            *)

\* The bit depths the function has a branch for (8 through the last one).
SupportedDepths == {8, 16, 32}

\* The whole samples between dataOffset and the end of the buffer.
WholeSamples == (Len(buffer) - dataOffset) \div (bitsPerSample \div 8)

\* Sample i of the buffer is above zero, told from its bytes: an 8-bit
\* sample is 1..127; a 16-bit sample has its sign bit clear and a bit set;
\* a float has its sign bit clear, a bit set, and is not a NaN.
SamplePositive(i) ==
    LET o == dataOffset + i * (bitsPerSample \div 8)
    IN IF bitsPerSample = 8 THEN buffer[o + 1] \in 1..127
       ELSE IF bitsPerSample = 16
         THEN buffer[o + 2] < 128 /\ (buffer[o + 2] > 0 \/ buffer[o + 1] > 0)
       ELSE /\ buffer[o + 4] < 128
            /\ \E k \in 1..4 : buffer[o + k] > 0
            /\ ~(/\ buffer[o + 4] = 127 /\ buffer[o + 3] >= 128
                 /\ (buffer[o + 3] > 128 \/ buffer[o + 2] > 0 \/ buffer[o + 1] > 0))

\* C15: at a supported bit depth the digitizer returns, and the trace it
\* returns has min(available samples, cap) elements; at every point element
\* i of the trace is true exactly when sample i is above zero, so a sample
\* equal to zero gives false.
C15_TraceOfSamples ==
    (bitsPerSample \in SupportedDepths /\ dpc # "call") =>
        /\ dpc # "thrown"
        /\ Len(polarity) = sampleIndex
        /\ dpc \in {"returned", "decoding"} =>
              Len(polarity) = Min(WholeSamples, maxSamples)
        /\ \A i \in 0..(Len(polarity) - 1) : polarity[i + 1] = SamplePositive(i)

\* Two 16-bit samples, 0 and 1, under a cap of one (the first only, and it
\* is false), and the same two under no effective cap.
C15_Witness ==
    /\ dpc = "returned" /\ bitsPerSample = 16 /\ dataOffset = 44
    /\ SubSeq(buffer, 45, Len(buffer)) = <<0, 0, 1, 0>>
    /\ maxSamples = 1
    /\ polarity = <<FALSE>>

\* C16: at a bit depth other than 8, 16 and 32-bit float the digitizer
\* fails with a FormatError and hands no trace on, so that no decode is
\* attempted.
C16_UnsupportedDepthFails ==
    (bitsPerSample \notin SupportedDepths /\ dpc \notin {"idle", "call", "loop"}) =>
        /\ dpc = "thrown"
        /\ thrown = "FormatError"

\* What happens instead: a 24-bit buffer is read one low byte per sample
\* and its trace goes on to the frame search.
UnsupportedDepthDecoded ==
    /\ dpc = "decoding" /\ bitsPerSample = 24
    /\ polarity = <<TRUE, FALSE>>

---------------------------------------------------------------------------
(* The date read from the user bits: displayLTCFrame of read-timecode.ts   *)
(* on a frame decoded from the audio, and LTCSyncTool.parseLTCFrame on a   *)
(* line of ltcdump's text.                                                 *)

\* Every group printed as one hexadecimal digit.
UserBitsStringHex(frame) ==
    [k \in 1..8 |->
        (DigitChar \o <<"a", "b", "c", "d", "e", "f">>)[frame.binaryGroups[9 - k] + 1]]

\* `${frame.binaryGroup8}${frame.binaryGroup7}...${frame.binaryGroup1}`:
\* every group printed as a decimal number.
UserBitsString(frame) ==
    NumberToString(frame.binaryGroups[8]) \o NumberToString(frame.binaryGroups[7])
    \o NumberToString(frame.binaryGroups[6]) \o NumberToString(frame.binaryGroups[5])
    \o NumberToString(frame.binaryGroups[4]) \o NumberToString(frame.binaryGroups[3])
    \o NumberToString(frame.binaryGroups[2]) \o NumberToString(frame.binaryGroups[1])

\* A year that is always put in the 2000s.
FullYearPrefixed(year) == 2000 + year

\* year < 50 ? 2000 + year : 1900 + year
FullYear(year) == IF year < 50 THEN 2000 + year ELSE 1900 + year

\* The Date line of the display: what it shows, NULL when it is not printed.
DateShown(s) ==
    IF Len(s) # 8 THEN NULL
    ELSE LET year  == ParseInt(Substring(s, 0, 2))
             month == ParseInt(Substring(s, 2, 4))
             day   == ParseInt(Substring(s, 4, 6))
             extra == Substring(s, 6, 8)
         IN IF month >= 1 /\ month <= 12 /\ day >= 1 /\ day <= 31
              THEN [ month |-> month, day |-> day, fullYear |-> FullYear(year),
                     extra |-> IF extra # <<"0", "0">> THEN extra ELSE << >> ]
            ELSE NULL

---------------------------------------------------------------------------
(* The frames and the lines the date is read from.                         *)

\* User bits from the eight digits of YYMMDDXX; ub[g] is group g, and group 8
\* is the first digit.
GroupsOf(d) == [g \in 1..8 |-> d[9 - g]]

FieldsWith(ub) == [ExampleFields EXCEPT !.ub = ub]

\* Every two-digit year on three valid dates, with and without an extra
\* field; two years on dates out of range; groups above 9: one, in every
\* place, two of them, and all eight.
UserGroups ==
    {GroupsOf(<<y1, y2>> \o md \o xx) :
        y1 \in 0..9, y2 \in 0..9,
        md \in {<<0, 9, 1, 5>>, <<1, 2, 3, 1>>, <<0, 1, 0, 1>>},
        xx \in {<<0, 0>>, <<0, 7>>}}
    \cup {GroupsOf(yy \o mm \o dd \o <<0, 0>>) :
            yy \in {<<2, 5>>, <<7, 5>>},
            mm \in {<<0, 0>>, <<1, 2>>, <<1, 3>>, <<9, 9>>},
            dd \in {<<0, 0>>, <<3, 1>>, <<3, 2>>, <<9, 9>>}}
    \cup {[ExampleFields.ub EXCEPT ![g] = v] : g \in 1..8, v \in {10, 12, 15}}
    \cup {[ExampleFields.ub EXCEPT ![g] = 11, ![h] = 14] : g \in {1, 8}, h \in 2..7}
    \cup {[g \in 1..8 |-> 15]}

FrameResults ==
    {[frame |-> parseLTCFrame(BuildFrame(FieldsWith(ub), {})), samplePosition |-> 0] :
        ub \in UserGroups}
    \cup {NULL}

\* Lines with every two-digit year on a valid date, and the lines with
\* dates out of range and with letters.
DumpLines ==
    {DataLine(TwoDigits(yy) \o md \o <<"0", "0">>, Timecode(1, 2, 3, ":", 4)) :
        yy \in 0..99, md \in {<<"0", "9", "1", "5">>, <<"1", "2", "3", "1">>}}
    \cup DateLines

DateInit ==
    /\ \/ /\ route = "audio"
          /\ frameResult \in FrameResults
          /\ dumpLine = NULL
          /\ runDate = NULL
       \/ /\ route = "text"
          /\ frameResult = NULL
          /\ dumpLine \in DumpLines
          /\ runDate \in Dates
    /\ userBitsString = << >>
    /\ shownDate = NULL
    /\ dumpFrame = NULL
    /\ ypc = "call"
    /\ FrameIdle
    /\ ValidateIdle
    /\ SyncIdle
    /\ RecoverIdle
    /\ DigitizeIdle

\* displayLTCFrame(result)
DisplayLTCFrame ==
    /\ route = "audio" /\ ypc = "call"
    /\ IF frameResult = NULL
         THEN UNCHANGED <<userBitsString, shownDate>>
         ELSE /\ userBitsString' = UserBitsString(frameResult.frame)
              /\ shownDate' = DateShown(userBitsString')
    /\ ypc' = "done"
    /\ UNCHANGED <<route, frameResult, dumpLine, dumpFrame, runDate,
                   frameVars, validateVars, syncVars, recoverVars, digitizeVars>>

\* LTCSyncTool.parseLTCFrame(line)
ParseDumpLine ==
    /\ route = "text" /\ ypc = "call"
    /\ dumpFrame' = LTCSyncTool_parseLTCFrame(dumpLine, runDate).frame
    /\ ypc' = "done"
    /\ UNCHANGED <<route, frameResult, dumpLine, userBitsString, shownDate, runDate,
                   frameVars, validateVars, syncVars, recoverVars, digitizeVars>>

DateNext ==
    \/ DisplayLTCFrame
    \/ ParseDumpLine

SpecDate == DateInit /\ [][DateNext]_vars

---------------------------------------------------------------------------
(* Claims about the date.                                                  *)

\* The display has been given a frame and has run.
Displayed == route = "audio" /\ ypc = "done" /\ frameResult # NULL

\* The user-bit groups of the frame displayed.
Groups == frameResult.frame.binaryGroups

\* A line whose first six user-bit characters are digits has been parsed
\* to a frame, and its month and day are in range.
DumpDated ==
    /\ route = "text" /\ ypc = "done" /\ dumpFrame # NULL
    /\ \A k \in 1..6 : IsDigit(dumpLine.userBits[k])
    /\ ~DateInvalid(ParseInt(Substring(dumpLine.userBits, 2, 4)),
                    ParseInt(Substring(dumpLine.userBits, 4, 6)))

\* The two digits YY of a parsed line.
DumpYY == DigitOf[dumpLine.userBits[1]] * 10 + DigitOf[dumpLine.userBits[2]]

\* C17: the audio-decoded path expands the two-digit year to 2000 + YY for
\* every YY, and the rule "below 50 the 2000s, from 50 the 1900s" is that
\* of the path that reads the decode tool's text.
C17_AudioYearPrefixed ==
    /\ (Displayed /\ shownDate # NULL) =>
          shownDate.fullYear = 2000 + (Groups[8] * 10 + Groups[7])
    /\ DumpDated =>
          dumpFrame.year = IF DumpYY < 50 THEN 2000 + DumpYY ELSE 1900 + DumpYY

\* C17, as the code has it: the two rules are the other way round.  The
\* display of the audio-decoded frame puts a year below 50 in the 2000s
\* and a year from 50 in the 1900s; the frame parsed from the decode
\* tool's text has the year 2000 + YY for every YY.
C17_AudioYearByHalfCentury ==
    /\ (Displayed /\ shownDate # NULL) =>
          LET yy == Groups[8] * 10 + Groups[7]
          IN /\ yy < 50 => shownDate.fullYear = 2000 + yy
             /\ yy >= 50 => shownDate.fullYear = 1900 + yy
    /\ DumpDated => dumpFrame.year = 2000 + DumpYY

\* The display has shown 15 September of the year 75 as 1975.
C17_Witness ==
    /\ Displayed
    /\ Groups = <<0, 0, 5, 1, 9, 0, 5, 7>>
    /\ shownDate # NULL
    /\ shownDate.fullYear = 1975

\* The same date parsed from a line of text: 2075.
DumpYearWitness ==
    /\ DumpDated
    /\ SubSeq(dumpLine.userBits, 1, 6) = <<"7", "5", "0", "9", "1", "5">>
    /\ dumpFrame.year = 2075

\* The characters of the string are the groups 8 down to 1, one digit each.
DigitPerGroup ==
    /\ Len(userBitsString) = 8
    /\ \A k \in 1..8 : userBitsString[k] = DigitChar[Groups[9 - k] + 1]

LongUserBitsWitness ==
    /\ Displayed
    /\ Groups[6] = 12
    /\ Len(userBitsString) = 9
    /\ shownDate = NULL

---------------------------------------------------------------------------
(* findFirstValidLTCFrame on its own: the search over chunks, with the     *)
(* traces of the streams above, traces of one search chunk or less, and    *)
(* traces at sample rates of about a hundred samples a second.             *)

\* n frames one after another, the first built from ExampleFields.
RECURSIVE FrameRun(_)
FrameRun(n) ==
    IF n = 1 THEN BuildFrame(ExampleFields, {})
    ELSE FrameRun(n - 1) \o BuildFrame(ZeroFields, {})

\* n whole frames at 4800 Hz (160 samples each), the sample of the change
\* that closes the last bit, and `more` samples at that level.
ShortStream(n, more) ==
    LET trace == EncodeBiphase(FrameRun(n), 1, TRUE)
    IN TraceInput("find", 4800,
                  trace \o Level(more, trace[Len(trace)]),
                  Made("stream", << >>, << >>, 0))

\* One frame; three frames in exactly one search chunk of 640 samples; four
\* frames, which is one sample more.
ShortInputs4800 == {ShortStream(1, 0), ShortStream(3, 159), ShortStream(4, 0)}

\* Sample rates around the one at which ten bit periods round to a sample.
SlowRates == {100, 119, 120}

\* Traces a little longer than a search chunk at the slow rates.
SlowInputs ==
    {TraceInput("find", rate, RunsToTrace(runs, TRUE), Made("runs", runs, << >>, 0)) :
        rate \in SlowRates,
        runs \in {<<3, 3, 3, 3, 1>>, <<17>>, <<1, 2, 6, 10>>}}

FindInputs == StreamInputs4800 \cup ShortInputs4800 \cup SlowInputs

FindInit ==
    /\ \E in \in FindInputs :
          /\ entry = in.entry
          /\ sampleRate = in.sampleRate
          /\ digital = in.digital
          /\ encoded = in.encoded
    /\ startPos = 0
    /\ chunk = << >>
    /\ loopIndex = 0
    /\ currentState = 0
    /\ samplesPerBit = NULL
    /\ samplesSinceChange = 0
    /\ pendingBit = FALSE
    /\ result = NULL
    /\ rpc = "call"
    /\ FrameIdle
    /\ ValidateIdle
    /\ SyncIdle
    /\ DigitizeIdle
    /\ DateIdle

FindNext ==
    \/ FindChunk
    \/ RecoverStep
    \/ FinishDetect
    \/ FindDecide

\* The function is synchronous: once called it runs until it returns.
SpecFind == FindInit /\ [][FindNext]_vars /\ WF_vars(FindNext)

---------------------------------------------------------------------------
(* Claims about the search.                                                *)

\* The trace holds at least one whole cleanly encoded frame, and the
\* search has returned.
SearchedFrames == entry = "find" /\ rpc = "returned" /\ encoded.kind = "stream"

\* C21: when the trace holds one complete, cleanly encoded frame with a
\* correct sync word, the search returns a frame, also when the whole
\* trace is no longer than one search chunk of four frame lengths.
C21_FrameFound == SearchedFrames => result # NULL

\* With more samples than one search chunk, the frames of the traces
\* searched here are found.
FrameFoundPastOneChunk ==
    (SearchedFrames /\ Len(digital) > chunkSize(sampleRate)) => result # NULL

\* Three frames in 640 samples are not found, four in 641 are.
OneChunkNotSearched ==
    /\ SearchedFrames /\ Len(digital) = chunkSize(sampleRate) /\ result = NULL

OneSampleMoreFound ==
    /\ SearchedFrames /\ Len(digital) = chunkSize(sampleRate) + 1
    /\ result # NULL /\ result.samplePosition = 0

\* C23: the search ends, with a frame or with "not found", for every trace
\* and every positive sample rate.
C23_ScanTerminates == <>(rpc = "returned")

\* Ten bit periods round to at least one sample.
WholeStep == \E rate \in {sampleRate} : searchStep(rate) >= 1

\* The search ends when the step is at least one sample (the sample rate
\* does not change during a search).
TerminatesAtWholeStep == <>(~WholeStep \/ rpc = "returned")

\* The start position grows from one chunk to the next when the step is at
\* least one sample.
StartPosGrows ==
    [][(rpc = "scanned" /\ rpc' = "call" /\ WholeStep) => startPos' > startPos]_vars

\* What stops it below 120 samples a second: a chunk has been searched and
\* the next begins where it did.
SearchStandsStill ==
    /\ entry = "find" /\ rpc = "call" /\ sampleRate = 100
    /\ startPos = 0 /\ chunk # << >>

---------------------------------------------------------------------------
(* Claims about the end of a bit-recovery pass.                            *)

\* The step that leaves the recovery loop: the flush, and what follows it.
PassEnds == rpc = "loop" /\ rpc' # "loop"

\* C22: at the end of a pass a pending half bit is flushed as one more 1
\* exactly when the input was used up with the budget not yet reached, and
\* a flush never takes the bits collected over the budget, in the free scan
\* (1000) and in the position-anchored decode (80).
C22_FlushWithinBudget ==
    [][PassEnds =>
          LET exhausted == loopIndex >= Len(chunk)
              under     == Len(bits) < Budget(entry)
          IN /\ (pendingBit /\ exhausted /\ under) => bits' = Append(bits, 1)
             /\ ~(pendingBit /\ exhausted /\ under) => bits' = bits
             /\ bits' # bits => Len(bits') <= Budget(entry)]_vars

\* A half bit is never pending once the budget is reached: every step that
\* adds a bit leaves none pending.
NonePendingAtBudget == Len(bits) >= Budget(entry) => ~pendingBit

\* The anchored decode at 9600 Hz over two runs of two samples: the second
\* run ends with the trace, and the half bit of the first is flushed.
C22_Witness ==
    /\ entry = "anchored" /\ rpc = "returned" /\ sampleRate = 9600
    /\ encoded.kind = "runs" /\ encoded.runs = <<2, 2>>
    /\ ~(loopIndex < Len(chunk))
    /\ pendingBit
    /\ bits = <<1>>

\* The free scan has stopped at its budget with trace left over, nothing
\* pending and nothing flushed.
BudgetStopWitness ==
    /\ entry = "free" /\ rpc = "returned"
    /\ loopIndex < Len(chunk)
    /\ Len(bits) = FreeBudget
    /\ ~pendingBit

---------------------------------------------------------------------------
(* Claims about the files that are updated.                                *)

\* The calls of the update step made so far.
Updates == {i \in DOMAIN calls : calls[i].tool = "bwfmetaedit"}

\* The files ltcdump has been run on so far: the sources of the run.
Extracted == {calls[i].file : i \in {j \in DOMAIN calls : calls[j].tool = "ltcdump"}}

\* Every file updated is a .wav file of the listing other than the source
\* it is updated from, both names have at least three parts, and the first
\* two parts are the same.
UpdatedAreSiblings ==
    \A i \in Updates :
        /\ calls[i].file \in Range(listing)
        /\ IsWav(calls[i].file)
        /\ calls[i].file # calls[i].source
        /\ Len(calls[i].file.parts) >= 3
        /\ Len(calls[i].source.parts) >= 3
        /\ SubSeq(calls[i].file.parts, 1, 2) = SubSeq(calls[i].source.parts, 1, 2)

\* A source whose name has fewer than three parts has no siblings, and
\* nothing is extracted from it or updated for it.
ShortNameNoUpdate ==
    (sourceFile # NULL /\ Len(sourceFile.parts) < 3) =>
        /\ siblingFiles = << >>
        /\ \A i \in DOMAIN calls : calls[i].source # sourceFile

\* C24: a file the timecode is extracted from is never a target of a
\* metadata update: in every run the files passed to the update step are
\* .wav files of the directory with the source's first two name parts and
\* at least three parts, and none of them is a source; a source with fewer
\* than three name parts has no siblings and causes no update.
C24_SourceNeverUpdated ==
    /\ UpdatedAreSiblings
    /\ ShortNameNoUpdate
    /\ \A i \in Updates : calls[i].file \notin Extracted

\* Directory mode with two files of the selected pattern in one take: the
\* second is updated from the first, and then the first from the second.
SourcesUpdateEachOther ==
    /\ isDirectoryMode
    /\ \E i, j \in Updates :
          /\ i < j
          /\ calls[i].file = calls[j].source
          /\ calls[j].file = calls[i].source

\* A file with a two-part name was the source of a single-file run that
\* has ended without a call.
ShortNameWitness ==
    /\ ~isDirectoryMode /\ spc = "done" /\ calls = << >>
    /\ sourceFile = WavFile(<<"mix", "1-2">>)
    /\ Len(listing) >= 3

===========================================================================
